---- MODULE Spec2Model ----
(***************************************************************************)
(* A model of the SubWallets container of the wallet backend               *)
(* (WalletBackend/SubWallets.cpp) and of the value types it stores         *)
(* (WalletTypes.h).                                                        *)
(*                                                                         *)
(* Every public method of the container is one action.  The container's   *)
(* fields are the variables m_*; `last' records the most recent call (its  *)
(* name, arguments and outcome), `pre' the fields as they were when that   *)
(* call started, and `last2' the call before it when that one added an    *)
(* unconfirmed transaction.  `m_mutex' and `threads' are the mutex and the *)
(* positions of the threads in the methods modelled statement by           *)
(* statement.  The methods of SubWallet                                    *)
(* (WalletBackend/SubWallet.cpp) are not part of the sources at hand; they *)
(* are modelled from the written specification of the input ledger.        *)
(***************************************************************************)
EXTENDS Integers, Sequences, FiniteSets, TLC

(***************************************************************************)
(* Bounds of the model.                                                    *)
(***************************************************************************)
MaxKeys == 2
MaxHeight == 1
MaxTime == 1
MaxHashes == 2
MaxTxs == 2
MaxOutputs == 2
MaxAmount == 2
MaxInputs == 2
MaxList == 1
MaxFusionInputs == 4
MaxThreads == 2

(***************************************************************************)
(* Value domains.                                                          *)
(***************************************************************************)
PublicKeys == 1..MaxKeys
Heights == 0..MaxHeight
Timestamps == 1..MaxTime
Hashes == 1..MaxHashes
OutputKeys == 1..MaxOutputs
Amounts == 1..MaxAmount

(* Crypto::SecretKey values: the secret key of public key k is 100 + k.    *)
SecretKeys == {100 + k : k \in PublicKeys}
PrivateViewKeys == {100}

(* The default-constructed Crypto::SecretKey / Crypto::KeyImage (all zero). *)
NullKey == 0

(* Crypto::secret_key_to_public_key *)
secret_key_to_public_key(sk) == sk - 100

(* Utilities::publicKeysToAddress: an address encodes both public keys.    *)
publicKeysToAddress(publicSpendKey, publicViewKey) ==
    <<"addr", publicSpendKey, publicViewKey>>

(* Utilities::privateKeysToAddress *)
privateKeysToAddress(privateSpendKey, privateViewKey) ==
    publicKeysToAddress(secret_key_to_public_key(privateSpendKey),
                        secret_key_to_public_key(privateViewKey))

(* Utilities::addressToKeys *)
addressToKeys(address) == <<address[2], address[3]>>

(* WalletTypes::Transaction, reduced to the members the container reads.   *)
Transaction == [hash : Hashes, blockHeight : Heights]

(***************************************************************************)
(* Generic helpers.                                                        *)
(***************************************************************************)
Range(s) == {s[i] : i \in DOMAIN s}

RECURSIVE SelectSeqP(_, _)
(* The subsequence of s of the elements at the indices in keepIdx.         *)
SelectSeqP(s, keepIdx) ==
    IF s = <<>> THEN <<>>
    ELSE LET n == Len(s)
             front == SelectSeqP(SubSeq(s, 1, n - 1), keepIdx)
         IN  IF n \in keepIdx THEN Append(front, s[n]) ELSE front

(* s without its elements that are in `matching', order preserved.        *)
Without(s, matching) == SelectSeqP(s, {i \in DOMAIN s : s[i] \notin matching})

(* The number of places of s that hold an element of `matching'.           *)
Count(s, matching) == Cardinality({i \in DOMAIN s : s[i] \in matching})

RECURSIVE SumSeq(_)
SumSeq(s) == IF s = <<>> THEN 0 ELSE s[1] + SumSeq(Tail(s))

(* All sequences over S of length at most n. *)
SeqsUpTo(S, n) == UNION {[1..k -> S] : k \in 0..n}

(* Amounts are uint64_t.  The sums taken here are sums of amounts of       *)
(* distinct outputs on the chain, which the money supply keeps far below   *)
(* 2^64: they are modelled as plain integer sums.                          *)

(***************************************************************************)
(* The input ledger of one sub-wallet (SubWallet), modelled from the       *)
(* written specification.                                                  *)
(***************************************************************************)

(* Crypto::generate_key_image: a function of the output key and the        *)
(* owner's spend keys.                                                     *)
generate_key_image(key, publicSpendKey) == <<"ki", key, publicSpendKey>>

(* SubWallet's constructors: with and without a private spend key.         *)
SubWallet(publicSpendKey, privateSpendKey, address, scanHeight, timestamp, isPrimaryAddress) ==
    [publicSpendKey     |-> publicSpendKey,
     privateSpendKey    |-> privateSpendKey,
     address            |-> address,
     syncStartHeight    |-> scanHeight,
     syncStartTimestamp |-> timestamp,
     isPrimaryAddress   |-> isPrimaryAddress,
     inputs             |-> {}]

ViewSubWallet(publicSpendKey, address, scanHeight, timestamp, isPrimaryAddress) ==
    SubWallet(publicSpendKey, NullKey, address, scanHeight, timestamp,
              isPrimaryAddress)

(***************************************************************************)
(* The container.                                                          *)
(***************************************************************************)
VARIABLES
    m_subWallets,          \* public spend key -> SubWallet
    m_publicSpendKeys,     \* sequence of public spend keys
    m_transactions,        \* confirmed transactions
    m_lockedTransactions,  \* sent, not yet confirmed transactions
    m_privateViewKey,
    m_isViewWallet,
    last,                  \* the most recent call and its outcome
    last2,                 \* the call before it, when it added an unconfirmed transaction
    pre,                   \* the container when the most recent call started
    m_mutex,               \* the thread that holds the mutex, or NoThread
    threads                \* each thread's position in the method it runs

fields == <<m_subWallets, m_publicSpendKeys, m_transactions,
            m_lockedTransactions, m_privateViewKey, m_isViewWallet>>

vars == <<m_subWallets, m_publicSpendKeys, m_transactions,
          m_lockedTransactions, m_privateViewKey, m_isViewWallet,
          last, last2, pre, m_mutex, threads>>

(* The threads that share the container.  A call modelled as one step is   *)
(* made while no other thread is inside the container.                     *)
Threads == 1..MaxThreads
NoThread == 0
NoneInside ==
    /\ m_mutex = NoThread
    /\ threads = [t \in Threads |-> [pc |-> "idle"]]

(* The container's collections, as a call finds them. *)
Snapshot ==
    [subWallets         |-> m_subWallets,
     publicSpendKeys    |-> m_publicSpendKeys,
     transactions       |-> m_transactions,
     lockedTransactions |-> m_lockedTransactions]

(* Bookkeeping of one call: what it was, and the state it started from.    *)
Called(call) ==
    /\ last' = call
    /\ last2' = IF last.op = "addUnconfirmedTransaction"
                THEN [op |-> last.op, tx |-> last.tx]
                ELSE [op |-> "other", tx |-> <<>>]
    /\ pre' = Snapshot
    /\ UNCHANGED <<m_mutex, threads>>

(* SubWallets::SubWallets (full wallet) *)
NewSubWallets(privateSpendKey, privateViewKey, address, scanHeight, newWallet, now) ==
    LET publicSpendKey == secret_key_to_public_key(privateSpendKey)
        timestamp == IF newWallet THEN now ELSE 0
    IN  /\ m_privateViewKey = privateViewKey
        /\ m_isViewWallet = FALSE
        /\ m_subWallets = (publicSpendKey :>
               SubWallet(publicSpendKey, privateSpendKey, address, scanHeight,
                         timestamp, TRUE))
        /\ m_publicSpendKeys = <<publicSpendKey>>
        /\ m_transactions = <<>>
        /\ m_lockedTransactions = <<>>

(* SubWallets::SubWallets (view wallet) *)
NewViewSubWallets(privateViewKey, address, scanHeight, newWallet, now) ==
    LET publicSpendKey == addressToKeys(address)[1]
        timestamp == IF newWallet THEN now ELSE 0
    IN  /\ m_privateViewKey = privateViewKey
        /\ m_isViewWallet = TRUE
        /\ m_subWallets = (publicSpendKey :>
               ViewSubWallet(publicSpendKey, address, scanHeight, timestamp, TRUE))
        /\ m_publicSpendKeys = <<publicSpendKey>>
        /\ m_transactions = <<>>
        /\ m_lockedTransactions = <<>>

(* The state after construction, by either constructor.  The address handed *)
(* to the constructor is the one of the wallet's keys.                     *)
Init ==
    /\ \E privateViewKey \in PrivateViewKeys, scanHeight \in Heights,
          newWallet \in BOOLEAN, now \in Timestamps :
          \/ \E privateSpendKey \in SecretKeys :
                NewSubWallets(privateSpendKey, privateViewKey,
                    privateKeysToAddress(privateSpendKey, privateViewKey),
                    scanHeight, newWallet, now)
          \/ \E publicSpendKey \in PublicKeys :
                NewViewSubWallets(privateViewKey,
                    publicKeysToAddress(publicSpendKey,
                        secret_key_to_public_key(privateViewKey)),
                    scanHeight, newWallet, now)
    /\ last = [op |-> "constructor"]
    /\ last2 = [op |-> "other", tx |-> <<>>]
    /\ pre = Snapshot
    /\ NoneInside

(***************************************************************************)
(* Sub-wallet management.                                                  *)
(***************************************************************************)

(* addSubWallet marking the sub-wallet it creates as primary. *)
addSubWallet_Primary(publicKey, now) ==
    IF m_isViewWallet
    THEN /\ Called([op |-> "addSubWallet", result |-> "ILLEGAL_VIEW_WALLET_OPERATION"])
         /\ UNCHANGED fields
    ELSE LET secretKey == 100 + publicKey
             address == privateKeysToAddress(secretKey, m_privateViewKey)
         IN  /\ m_subWallets' = (publicKey :>
                    SubWallet(publicKey, secretKey, address, 0, now, TRUE))
                    @@ m_subWallets
             /\ Called([op |-> "addSubWallet", result |-> "SUCCESS",
                        publicSpendKey |-> publicKey])
             /\ UNCHANGED <<m_publicSpendKeys, m_transactions,
                            m_lockedTransactions, m_privateViewKey,
                            m_isViewWallet>>

(* SubWallets::addSubWallet.  `publicKey' is the public half of the key    *)
(* pair Crypto::generate_keys draws, `now' the adjusted current time.      *)
addSubWallet(publicKey, now) ==
    IF m_isViewWallet
    THEN /\ Called([op |-> "addSubWallet", result |-> "ILLEGAL_VIEW_WALLET_OPERATION"])
         /\ UNCHANGED fields
    ELSE LET secretKey == 100 + publicKey
             address == privateKeysToAddress(secretKey, m_privateViewKey)
         IN  /\ m_subWallets' = (publicKey :>
                    SubWallet(publicKey, secretKey, address, 0, now, FALSE))
                    @@ m_subWallets
             /\ Called([op |-> "addSubWallet", result |-> "SUCCESS",
                        publicSpendKey |-> publicKey])
             /\ UNCHANGED <<m_publicSpendKeys, m_transactions,
                            m_lockedTransactions, m_privateViewKey,
                            m_isViewWallet>>

(* importSubWallet without the test for a sub-wallet of that key. *)
importSubWallet_Overwrites(privateSpendKey, scanHeight, newWallet, now) ==
    LET call == [op |-> "importSubWallet", privateSpendKey |-> privateSpendKey,
                 scanHeight |-> scanHeight, newWallet |-> newWallet]
        publicSpendKey == secret_key_to_public_key(privateSpendKey)
        timestamp == IF newWallet THEN now ELSE 0
        address == privateKeysToAddress(privateSpendKey, m_privateViewKey)
    IN  IF m_isViewWallet
        THEN /\ Called(call @@ [result |-> "ILLEGAL_VIEW_WALLET_OPERATION"])
             /\ UNCHANGED fields
        ELSE /\ m_subWallets' = (publicSpendKey :>
                    SubWallet(publicSpendKey, privateSpendKey, address,
                              scanHeight, timestamp, FALSE)) @@ m_subWallets
             /\ m_publicSpendKeys' = Append(m_publicSpendKeys, publicSpendKey)
             /\ Called(call @@ [result |-> "SUCCESS"])
             /\ UNCHANGED <<m_transactions, m_lockedTransactions,
                            m_privateViewKey, m_isViewWallet>>

(* SubWallets::importSubWallet *)
importSubWallet(privateSpendKey, scanHeight, newWallet, now) ==
    LET call == [op |-> "importSubWallet", privateSpendKey |-> privateSpendKey,
                 scanHeight |-> scanHeight, newWallet |-> newWallet]
        publicSpendKey == secret_key_to_public_key(privateSpendKey)
        timestamp == IF newWallet THEN now ELSE 0
        address == privateKeysToAddress(privateSpendKey, m_privateViewKey)
    IN  IF m_isViewWallet
        THEN /\ Called(call @@ [result |-> "ILLEGAL_VIEW_WALLET_OPERATION"])
             /\ UNCHANGED fields
        ELSE IF publicSpendKey \in DOMAIN m_subWallets
        THEN /\ Called(call @@ [result |-> "SUBWALLET_ALREADY_EXISTS"])
             /\ UNCHANGED fields
        ELSE /\ m_subWallets' = (publicSpendKey :>
                    SubWallet(publicSpendKey, privateSpendKey, address,
                              scanHeight, timestamp, FALSE)) @@ m_subWallets
             /\ m_publicSpendKeys' = Append(m_publicSpendKeys, publicSpendKey)
             /\ Called(call @@ [result |-> "SUCCESS"])
             /\ UNCHANGED <<m_transactions, m_lockedTransactions,
                            m_privateViewKey, m_isViewWallet>>

(* importViewSubWallet without the test of the wallet kind. *)
importViewSubWallet_AnyKind(publicSpendKey, scanHeight, newWallet, now) ==
    LET call == [op |-> "importViewSubWallet", publicSpendKey |-> publicSpendKey,
                 scanHeight |-> scanHeight, newWallet |-> newWallet]
        timestamp == IF newWallet THEN now ELSE 0
        publicViewKey == secret_key_to_public_key(m_privateViewKey)
        address == publicKeysToAddress(publicSpendKey, publicViewKey)
    IN  IF publicSpendKey \in DOMAIN m_subWallets
        THEN /\ Called(call @@ [result |-> "SUBWALLET_ALREADY_EXISTS"])
             /\ UNCHANGED fields
        ELSE /\ m_subWallets' = (publicSpendKey :>
                    ViewSubWallet(publicSpendKey, address, scanHeight,
                                  timestamp, FALSE)) @@ m_subWallets
             /\ m_publicSpendKeys' = Append(m_publicSpendKeys, publicSpendKey)
             /\ Called(call @@ [result |-> "SUCCESS"])
             /\ UNCHANGED <<m_transactions, m_lockedTransactions,
                            m_privateViewKey, m_isViewWallet>>

(* SubWallets::importViewSubWallet *)
importViewSubWallet(publicSpendKey, scanHeight, newWallet, now) ==
    LET call == [op |-> "importViewSubWallet", publicSpendKey |-> publicSpendKey,
                 scanHeight |-> scanHeight, newWallet |-> newWallet]
        timestamp == IF newWallet THEN now ELSE 0
        publicViewKey == secret_key_to_public_key(m_privateViewKey)
        address == publicKeysToAddress(publicSpendKey, publicViewKey)
    IN  IF ~m_isViewWallet
        THEN /\ Called(call @@ [result |-> "ILLEGAL_NON_VIEW_WALLET_OPERATION"])
             /\ UNCHANGED fields
        ELSE IF publicSpendKey \in DOMAIN m_subWallets
        THEN /\ Called(call @@ [result |-> "SUBWALLET_ALREADY_EXISTS"])
             /\ UNCHANGED fields
        ELSE /\ m_subWallets' = (publicSpendKey :>
                    ViewSubWallet(publicSpendKey, address, scanHeight,
                                  timestamp, FALSE)) @@ m_subWallets
             /\ m_publicSpendKeys' = Append(m_publicSpendKeys, publicSpendKey)
             /\ Called(call @@ [result |-> "SUCCESS"])
             /\ UNCHANGED <<m_transactions, m_lockedTransactions,
                            m_privateViewKey, m_isViewWallet>>

(* A key pair drawn at random is one no sub-wallet has yet. *)
AddSubWallet ==
    \E publicKey \in PublicKeys \ DOMAIN m_subWallets, now \in Timestamps :
        addSubWallet(publicKey, now)

ImportSubWallet ==
    \E privateSpendKey \in SecretKeys, scanHeight \in Heights,
       newWallet \in BOOLEAN, now \in Timestamps :
        importSubWallet(privateSpendKey, scanHeight, newWallet, now)

ImportViewSubWallet ==
    \E publicSpendKey \in PublicKeys, scanHeight \in Heights,
       newWallet \in BOOLEAN, now \in Timestamps :
        importViewSubWallet(publicSpendKey, scanHeight, newWallet, now)

(***************************************************************************)
(* std::remove_if followed by the single-iterator std::vector::erase, the  *)
(* idiom of addTransaction, removeForkedTransactions,                      *)
(* removeCancelledTransactions and reset.                                  *)
(***************************************************************************)

(* std::remove_if, the predicate given as the set `matching' of the        *)
(* elements it accepts: the elements that do not match are moved to the    *)
(* front, in order, and the iterator returned (`it', an index from 1;      *)
(* Len + 1 is end()) is the place after the last of them.  The places from *)
(* `it' on are never assigned: they keep the hash and the block height     *)
(* they had (a moved-from Transaction keeps its scalar members).           *)
remove_if(v, matching) ==
    LET kept == Without(v, matching)
    IN  [array |-> kept \o SubSeq(v, Len(kept) + 1, Len(v)),
         it    |-> Len(kept) + 1]

(* std::vector::erase(const_iterator): removes the ONE element at `it'.    *)
erase(v, it) == SubSeq(v, 1, it - 1) \o SubSeq(v, it + 1, Len(v))

(* const auto it = std::remove_if(...); if (it != v.end()) v.erase(it);    *)
RemoveThenErase(v, matching) ==
    LET r == remove_if(v, matching)
    IN  IF r.it # Len(v) + 1 THEN erase(r.array, r.it) ELSE r.array

(***************************************************************************)
(* The transaction journal.                                                *)
(***************************************************************************)

(* SubWallets::addUnconfirmedTransaction *)
addUnconfirmedTransaction(tx) ==
    /\ m_lockedTransactions' = Append(m_lockedTransactions, tx)
    /\ Called([op |-> "addUnconfirmedTransaction", tx |-> tx])
    /\ UNCHANGED <<m_subWallets, m_publicSpendKeys, m_transactions,
                   m_privateViewKey, m_isViewWallet>>

(* addTransaction without the removal from the locked container. *)
addTransaction_KeepsLocked(tx) ==
    /\ m_transactions' = Append(m_transactions, tx)
    /\ Called([op |-> "addTransaction", tx |-> tx])
    /\ UNCHANGED <<m_subWallets, m_publicSpendKeys, m_lockedTransactions,
                   m_privateViewKey, m_isViewWallet>>

(* SubWallets::addTransaction *)
addTransaction(tx) ==
    LET SameHash == {transaction \in Range(m_lockedTransactions) :
                        tx.hash = transaction.hash}
    IN  /\ m_lockedTransactions' = RemoveThenErase(m_lockedTransactions, SameHash)
        /\ m_transactions' = Append(m_transactions, tx)
        /\ Called([op |-> "addTransaction", tx |-> tx])
        /\ UNCHANGED <<m_subWallets, m_publicSpendKeys, m_privateViewKey,
                       m_isViewWallet>>

(***************************************************************************)
(* The input ledger's rollback operations (SubWallet).                     *)
(***************************************************************************)

(* SubWallet::removeForkedInputs: an input received at or after the fork   *)
(* is deleted; one spent at or after it is unspent and unlocked.           *)
removeForkedInputs(subWallet, forkHeight) ==
    [subWallet EXCEPT !.inputs =
        {IF input.spendHeight >= forkHeight
         THEN [input EXCEPT !.spendHeight = 0, !.locked = FALSE]
         ELSE input
         : input \in {i \in subWallet.inputs : i.blockHeight < forkHeight}}]

(* SubWallet::removeCancelledTransactions: the inputs of the cancelled     *)
(* transactions are unlocked.                                              *)
removeCancelledInputs(subWallet, cancelledTransactions) ==
    [subWallet EXCEPT !.inputs =
        {IF input.parentTransactionHash \in cancelledTransactions
         THEN [input EXCEPT !.locked = FALSE]
         ELSE input
         : input \in subWallet.inputs}]

(* SubWallet::reset: inputs received at or after the scan height are       *)
(* dropped, every lock is cleared.                                         *)
resetInputs(subWallet, scanHeight) ==
    [subWallet EXCEPT !.inputs =
        {[input EXCEPT !.locked = FALSE]
         : input \in {i \in subWallet.inputs : i.blockHeight < scanHeight}}]

(***************************************************************************)
(* Fork, cancellation and reset.                                           *)
(***************************************************************************)

(* removeForkedTransactions without the loop over the sub-wallets. *)
removeForkedTransactions_JournalOnly(forkHeight) ==
    LET Forked == {tx \in Range(m_transactions) : tx.blockHeight >= forkHeight}
    IN  /\ m_transactions' = RemoveThenErase(m_transactions, Forked)
        /\ Called([op |-> "removeForkedTransactions", forkHeight |-> forkHeight])
        /\ UNCHANGED <<m_subWallets, m_publicSpendKeys, m_lockedTransactions,
                       m_privateViewKey, m_isViewWallet>>

(* SubWallets::removeForkedTransactions *)
removeForkedTransactions(forkHeight) ==
    LET Forked == {tx \in Range(m_transactions) : tx.blockHeight >= forkHeight}
    IN  /\ m_transactions' = RemoveThenErase(m_transactions, Forked)
        /\ m_subWallets' = [publicKey \in DOMAIN m_subWallets |->
               removeForkedInputs(m_subWallets[publicKey], forkHeight)]
        /\ Called([op |-> "removeForkedTransactions", forkHeight |-> forkHeight])
        /\ UNCHANGED <<m_publicSpendKeys, m_lockedTransactions,
                       m_privateViewKey, m_isViewWallet>>

(* SubWallets::removeCancelledTransactions.  throwIfViewWallet raises      *)
(* std::runtime_error before anything is touched.                          *)
removeCancelledTransactions(cancelledTransactions) ==
    LET call == [op |-> "removeCancelledTransactions",
                 cancelledTransactions |-> cancelledTransactions]
        Cancelled == {tx \in Range(m_lockedTransactions) :
                         tx.hash \in cancelledTransactions}
    IN  IF m_isViewWallet
        THEN /\ Called(call @@ [result |-> "runtime_error"])
             /\ UNCHANGED fields
        ELSE /\ m_lockedTransactions' =
                    RemoveThenErase(m_lockedTransactions, Cancelled)
             /\ m_subWallets' = [pubKey \in DOMAIN m_subWallets |->
                    removeCancelledInputs(m_subWallets[pubKey],
                                          cancelledTransactions)]
             /\ Called(call @@ [result |-> "returned"])
             /\ UNCHANGED <<m_publicSpendKeys, m_transactions,
                            m_privateViewKey, m_isViewWallet>>

(* SubWallets::reset *)
reset(scanHeight) ==
    LET Above == {tx \in Range(m_transactions) : tx.blockHeight >= scanHeight}
    IN  /\ m_lockedTransactions' = <<>>
        /\ m_transactions' = RemoveThenErase(m_transactions, Above)
        /\ m_subWallets' = [pubKey \in DOMAIN m_subWallets |->
               resetInputs(m_subWallets[pubKey], scanHeight)]
        /\ Called([op |-> "reset", scanHeight |-> scanHeight])
        /\ UNCHANGED <<m_publicSpendKeys, m_privateViewKey, m_isViewWallet>>

(* The journal holds at most MaxTxs entries in the model. *)
JournalHasRoom == Len(m_transactions) + Len(m_lockedTransactions) < MaxTxs

AddUnconfirmedTransaction ==
    /\ JournalHasRoom
    /\ \E tx \in Transaction : addUnconfirmedTransaction(tx)

(* A confirmation may take the place of the locked entry it confirms.      *)
AddTransaction ==
    \E tx \in Transaction :
        /\ \/ JournalHasRoom
           \/ \E i \in DOMAIN m_lockedTransactions :
                 m_lockedTransactions[i].hash = tx.hash
        /\ Len(m_transactions) < MaxTxs
        /\ addTransaction(tx)

RemoveForkedTransactions ==
    \E forkHeight \in 0..(MaxHeight + 1) : removeForkedTransactions(forkHeight)

RemoveCancelledTransactions ==
    \E cancelledTransactions \in SUBSET Hashes :
        removeCancelledTransactions(cancelledTransactions)

Reset == \E scanHeight \in 0..(MaxHeight + 1) : reset(scanHeight)

(***************************************************************************)
(* Inputs: storing, locking, spending (SubWallet's ledger behind the       *)
(* container's methods).                                                   *)
(***************************************************************************)

(* WalletTypes::TransactionInput as the scanner hands it over: unspent,    *)
(* with no key image yet.  `locked' is the ledger's own mark on an input.  *)
TransactionInput(key, amount, blockHeight, unlockTime, parentTransactionHash) ==
    [keyImage              |-> NullKey,
     key                   |-> key,
     amount                |-> amount,
     blockHeight           |-> blockHeight,
     spendHeight           |-> 0,
     unlockTime            |-> unlockTime,
     parentTransactionHash |-> parentTransactionHash,
     locked                |-> FALSE]

(* SubWallet::completeAndStoreTransactionInput: a full wallet derives the  *)
(* key image and stores the input unless that key image is stored already; *)
(* a view wallet stores the input without a key image.                     *)
storeInput(subWallet, derivation, outputIndex, input, isViewWallet) ==
    IF isViewWallet
    THEN [subWallet EXCEPT !.inputs = @ \cup {input}]
    ELSE LET keyImage == generate_key_image(<<derivation, outputIndex>>,
                                            subWallet.publicSpendKey)
         IN  IF \E i \in subWallet.inputs : i.keyImage = keyImage
             THEN subWallet
             ELSE [subWallet EXCEPT !.inputs =
                      @ \cup {[input EXCEPT !.keyImage = keyImage]}]

(* SubWallet::markInputAsLocked: an unknown key image is ignored.          *)
lockInput(subWallet, keyImage) ==
    [subWallet EXCEPT !.inputs =
        {IF input.keyImage = keyImage
         THEN [input EXCEPT !.locked = TRUE]
         ELSE input
         : input \in subWallet.inputs}]

(* markInputAsSpent adding the height to the one recorded. *)
spendInput_AddsHeight(subWallet, keyImage, spendHeight) ==
    [subWallet EXCEPT !.inputs =
        {IF input.keyImage = keyImage
         THEN [input EXCEPT !.spendHeight = @ + spendHeight, !.locked = FALSE]
         ELSE input
         : input \in subWallet.inputs}]

(* SubWallet::markInputAsSpent: sets the spend height, clears the lock.    *)
spendInput(subWallet, keyImage, spendHeight) ==
    [subWallet EXCEPT !.inputs =
        {IF input.keyImage = keyImage
         THEN [input EXCEPT !.spendHeight = spendHeight, !.locked = FALSE]
         ELSE input
         : input \in subWallet.inputs}]

(* completeAndStoreTransactionInput reaching the sub-wallet with           *)
(* m_subWallets[publicSpendKey] instead of find: a key without a           *)
(* sub-wallet gets a default-constructed one.                              *)
completeAndStoreTransactionInput_Subscript(publicSpendKey, derivation, outputIndex, input) ==
    LET call == [op |-> "completeAndStoreTransactionInput",
                 publicSpendKey |-> publicSpendKey, derivation |-> derivation,
                 outputIndex |-> outputIndex, input |-> input]
        found == IF publicSpendKey \in DOMAIN m_subWallets
                 THEN m_subWallets[publicSpendKey]
                 ELSE SubWallet(NullKey, NullKey, <<>>, 0, 0, FALSE)
    IN  /\ m_subWallets' = (publicSpendKey :>
               storeInput(found, derivation, outputIndex, input, m_isViewWallet))
               @@ m_subWallets
        /\ Called(call)
        /\ UNCHANGED <<m_publicSpendKeys, m_transactions, m_lockedTransactions,
                       m_privateViewKey, m_isViewWallet>>

(* SubWallets::completeAndStoreTransactionInput *)
completeAndStoreTransactionInput(publicSpendKey, derivation, outputIndex, input) ==
    LET call == [op |-> "completeAndStoreTransactionInput",
                 publicSpendKey |-> publicSpendKey, derivation |-> derivation,
                 outputIndex |-> outputIndex, input |-> input]
    IN  /\ m_subWallets' =
               IF publicSpendKey \in DOMAIN m_subWallets
               THEN [m_subWallets EXCEPT ![publicSpendKey] =
                        storeInput(@, derivation, outputIndex, input,
                                   m_isViewWallet)]
               ELSE m_subWallets
        /\ Called(call)
        /\ UNCHANGED <<m_publicSpendKeys, m_transactions, m_lockedTransactions,
                       m_privateViewKey, m_isViewWallet>>

(* markInputAsSpent reaching the sub-wallet with m_subWallets[publicKey]   *)
(* instead of at: a key without a sub-wallet gets a default-constructed    *)
(* one.                                                                    *)
markInputAsSpent_Subscript(keyImage, publicKey, spendHeight) ==
    LET call == [op |-> "markInputAsSpent", keyImage |-> keyImage,
                 publicKey |-> publicKey, spendHeight |-> spendHeight]
        found == IF publicKey \in DOMAIN m_subWallets
                 THEN m_subWallets[publicKey]
                 ELSE SubWallet(NullKey, NullKey, <<>>, 0, 0, FALSE)
    IN  IF m_isViewWallet
        THEN /\ Called(call @@ [result |-> "runtime_error"])
             /\ UNCHANGED fields
        ELSE /\ m_subWallets' = (publicKey :>
                    spendInput(found, keyImage, spendHeight)) @@ m_subWallets
             /\ Called(call @@ [result |-> "returned"])
             /\ UNCHANGED <<m_publicSpendKeys, m_transactions,
                            m_lockedTransactions, m_privateViewKey,
                            m_isViewWallet>>

(* SubWallets::markInputAsSpent.  throwIfViewWallet raises                 *)
(* std::runtime_error, m_subWallets.at raises std::out_of_range.           *)
markInputAsSpent(keyImage, publicKey, spendHeight) ==
    LET call == [op |-> "markInputAsSpent", keyImage |-> keyImage,
                 publicKey |-> publicKey, spendHeight |-> spendHeight]
    IN  IF m_isViewWallet
        THEN /\ Called(call @@ [result |-> "runtime_error"])
             /\ UNCHANGED fields
        ELSE IF publicKey \notin DOMAIN m_subWallets
        THEN /\ Called(call @@ [result |-> "out_of_range"])
             /\ UNCHANGED fields
        ELSE /\ m_subWallets' = [m_subWallets EXCEPT ![publicKey] =
                    spendInput(@, keyImage, spendHeight)]
             /\ Called(call @@ [result |-> "returned"])
             /\ UNCHANGED <<m_publicSpendKeys, m_transactions,
                            m_lockedTransactions, m_privateViewKey,
                            m_isViewWallet>>

(* markInputAsLocked returning without handing the key image to the        *)
(* sub-wallet.                                                             *)
markInputAsLocked_Ignored(keyImage, publicKey) ==
    LET call == [op |-> "markInputAsLocked", keyImage |-> keyImage,
                 publicKey |-> publicKey]
    IN  IF m_isViewWallet
        THEN /\ Called(call @@ [result |-> "runtime_error"])
             /\ UNCHANGED fields
        ELSE IF publicKey \notin DOMAIN m_subWallets
        THEN /\ Called(call @@ [result |-> "out_of_range"])
             /\ UNCHANGED fields
        ELSE /\ Called(call @@ [result |-> "returned"])
             /\ UNCHANGED fields

(* SubWallets::markInputAsLocked *)
markInputAsLocked(keyImage, publicKey) ==
    LET call == [op |-> "markInputAsLocked", keyImage |-> keyImage,
                 publicKey |-> publicKey]
    IN  IF m_isViewWallet
        THEN /\ Called(call @@ [result |-> "runtime_error"])
             /\ UNCHANGED fields
        ELSE IF publicKey \notin DOMAIN m_subWallets
        THEN /\ Called(call @@ [result |-> "out_of_range"])
             /\ UNCHANGED fields
        ELSE /\ m_subWallets' = [m_subWallets EXCEPT ![publicKey] =
                    lockInput(@, keyImage)]
             /\ Called(call @@ [result |-> "returned"])
             /\ UNCHANGED <<m_publicSpendKeys, m_transactions,
                            m_lockedTransactions, m_privateViewKey,
                            m_isViewWallet>>

(* The number of inputs the container holds. *)
RECURSIVE InputCount(_, _)
InputCount(subWallets, keys) ==
    IF keys = {} THEN 0
    ELSE LET k == CHOOSE x \in keys : TRUE
         IN  Cardinality(subWallets[k].inputs) + InputCount(subWallets, keys \ {k})

LedgerHasRoom == InputCount(m_subWallets, DOMAIN m_subWallets) < MaxInputs

(* The key images the container holds. *)
StoredKeyImages ==
    UNION {{<<i.keyImage, k>> : i \in m_subWallets[k].inputs} : k \in DOMAIN m_subWallets}

(***************************************************************************)
(* Balance and input selection.                                            *)
(***************************************************************************)

(* CryptoNote::parameters::CRYPTONOTE_MAX_BLOCK_NUMBER: an unlock time     *)
(* above it is a UNIX timestamp, one up to it a block height.              *)
CRYPTONOTE_MAX_BLOCK_NUMBER == 500000000

(* The elements of a finite set, in some order. *)
RECURSIVE SeqOf(_)
SeqOf(set) ==
    IF set = {} THEN <<>>
    ELSE LET x == CHOOSE y \in set : TRUE IN <<x>> \o SeqOf(set \ {x})

(* The unlock-time rule. *)
isInputUnlocked(unlockTime, currentHeight, now) ==
    \/ unlockTime = 0
    \/ unlockTime > CRYPTONOTE_MAX_BLOCK_NUMBER /\ now >= unlockTime
    \/ unlockTime <= CRYPTONOTE_MAX_BLOCK_NUMBER /\ currentHeight >= unlockTime

(* SubWallet::getInputs: the unspent, unlocked inputs, with their owner.   *)
getInputs(subWallet) ==
    {[input           |-> i,
      publicSpendKey  |-> subWallet.publicSpendKey,
      privateSpendKey |-> subWallet.privateSpendKey]
     : i \in {x \in subWallet.inputs : x.spendHeight = 0 /\ ~x.locked}}

(* SubWallet::getBalance: <<unlocked, locked>>.  A spent input counts for  *)
(* neither; an unspent one is unlocked when it is not locked and its       *)
(* unlock time has passed.                                                 *)
subWalletBalance(subWallet, currentHeight, now) ==
    LET unspent == {i \in subWallet.inputs : i.spendHeight = 0}
        free == {i \in unspent :
                    ~i.locked /\ isInputUnlocked(i.unlockTime, currentHeight, now)}
        amounts(set) == LET seq == SeqOf(set)
                        IN  SumSeq([n \in DOMAIN seq |-> seq[n].amount])
    IN  <<amounts(free), amounts(unspent \ free)>>

(* The wallets.push_back(m_subWallets.at(publicKey)) / getInputs loops:    *)
(* the inputs of the named sub-wallets, one after the other.               *)
RECURSIVE availableInputs(_, _)
availableInputs(subWallets, subWalletsToTakeFrom) ==
    IF subWalletsToTakeFrom = <<>> THEN <<>>
    ELSE SeqOf(getInputs(subWallets[Head(subWalletsToTakeFrom)]))
            \o availableInputs(subWallets, Tail(subWalletsToTakeFrom))

(* foundMoney after the first j inputs (uint64_t). *)
foundMoney(inputs, j) == SumSeq([i \in 1..j |-> inputs[i].input.amount])

(* The loop that stops at the first input that brings MORE than the amount. *)
takeInputs_StrictlyMore(inputs, amount) ==
    LET enough == {j \in 1..Len(inputs) : foundMoney(inputs, j) > amount}
    IN  IF enough = {}
        THEN [result |-> "invalid_argument: Not enough funds found!"]
        ELSE LET j == CHOOSE x \in enough : \A y \in enough : x <= y
             IN  [result |-> "returned", inputsToUse |-> SubSeq(inputs, 1, j),
                  foundMoney |-> foundMoney(inputs, j)]

(* The accumulation loop of getTransactionInputsForAmount over the         *)
(* shuffled inputs: each input is added, and the call returns as soon as   *)
(* foundMoney >= amount; when the inputs run out it throws.                *)
takeInputs(inputs, amount) ==
    LET enough == {j \in 1..Len(inputs) : foundMoney(inputs, j) >= amount}
    IN  IF enough = {}
        THEN [result |-> "invalid_argument: Not enough funds found!"]
        ELSE LET j == CHOOSE x \in enough : \A y \in enough : x <= y
             IN  [result |-> "returned", inputsToUse |-> SubSeq(inputs, 1, j),
                  foundMoney |-> foundMoney(inputs, j)]

(* SubWallets::getTransactionInputsForAmount.  std::shuffle leaves the     *)
(* available inputs in any order.                                          *)
getTransactionInputsForAmount(amount, takeFromAll, subWalletsToTakeFrom) ==
    LET call == [op |-> "getTransactionInputsForAmount", amount |-> amount,
                 takeFromAll |-> takeFromAll,
                 subWalletsToTakeFrom |-> subWalletsToTakeFrom]
        keys == IF takeFromAll THEN m_publicSpendKeys ELSE subWalletsToTakeFrom
    IN  /\ UNCHANGED fields
        /\ IF m_isViewWallet
           THEN Called(call @@ [result |-> "runtime_error"])
           ELSE IF \E i \in DOMAIN keys : keys[i] \notin DOMAIN m_subWallets
           THEN Called(call @@ [result |-> "out_of_range"])
           ELSE LET available == availableInputs(m_subWallets, keys)
                IN  \E order \in Permutations(DOMAIN available) :
                       Called(call @@ takeInputs(
                           [i \in DOMAIN available |-> available[order[i]]],
                           amount))

(* SubWallets::getBalance *)
getBalance(subWalletsToTakeFrom, takeFromAll, currentHeight, now) ==
    LET call == [op |-> "getBalance", takeFromAll |-> takeFromAll,
                 subWalletsToTakeFrom |-> subWalletsToTakeFrom,
                 currentHeight |-> currentHeight, now |-> now]
        keys == IF takeFromAll THEN m_publicSpendKeys ELSE subWalletsToTakeFrom
        each == [i \in DOMAIN keys |->
                    subWalletBalance(m_subWallets[keys[i]], currentHeight, now)]
    IN  /\ UNCHANGED fields
        /\ IF \E i \in DOMAIN keys : keys[i] \notin DOMAIN m_subWallets
           THEN Called(call @@ [result |-> "out_of_range"])
           ELSE Called(call @@
                   [result |-> "returned",
                    unlockedBalance |->
                        SumSeq([i \in DOMAIN keys |-> each[i][1]]),
                    lockedBalance |->
                        SumSeq([i \in DOMAIN keys |-> each[i][2]])])

(***************************************************************************)
(* The calls with their arguments drawn from the sets given.               *)
(***************************************************************************)
(* The scanner hands over the outputs of a sub-wallet in the order of      *)
(* their derivations: one it handed over before, or the next one.          *)
StoreInput(publicSpendKeys, amounts, blockHeights, unlockTimes, hashes) ==
    /\ LedgerHasRoom
    /\ \E publicSpendKey \in publicSpendKeys, derivation \in OutputKeys,
          amount \in amounts, blockHeight \in blockHeights,
          unlockTime \in unlockTimes, hash \in hashes :
          /\ publicSpendKey \in DOMAIN m_subWallets =>
                 derivation <= Cardinality(m_subWallets[publicSpendKey].inputs) + 1
          /\ completeAndStoreTransactionInput(publicSpendKey, derivation, 0,
                 TransactionInput(<<derivation, 0>>, amount, blockHeight,
                                  unlockTime, hash))

MarkInputAsLocked ==
    \E publicKey \in PublicKeys, derivation \in OutputKeys :
        markInputAsLocked(generate_key_image(<<derivation, 0>>, publicKey),
                          publicKey)

MarkInputAsSpent ==
    \E publicKey \in PublicKeys, derivation \in OutputKeys,
       spendHeight \in 1..MaxHeight :
        markInputAsSpent(generate_key_image(<<derivation, 0>>, publicKey),
                         publicKey, spendHeight)

(* The key lists a caller passes: with takeFromAll the list is not read,   *)
(* and is passed empty; the order of a list does not matter to the calls   *)
(* (they add up, or shuffle), so the lists are drawn in ascending order.   *)
KeyLists(takeFromAll) ==
    IF takeFromAll THEN {<<>>}
    ELSE {l \in SeqsUpTo({1, 2}, MaxList) :
             \A i \in 1..(Len(l) - 1) : l[i] <= l[i + 1]}

(* A query leaves the container as it found it: a query made after another *)
(* query reaches no state that the query alone does not reach.             *)
QueryJustRan ==
    last.op \in {"getTransactionInputsForAmount", "getBalance",
                 "getFusionTransactionInputs", "getLockedTransactionsHashes",
                 "getMinInitialSyncStart", "getPrimaryAddress"}

GetTransactionInputsForAmount ==
    /\ ~QueryJustRan
    /\ \E amount \in 0..(MaxInputs + 1), takeFromAll \in BOOLEAN :
          \E subWalletsToTakeFrom \in KeyLists(takeFromAll) :
             getTransactionInputsForAmount(amount, takeFromAll,
                                           subWalletsToTakeFrom)

GetBalance ==
    /\ ~QueryJustRan
    /\ \E takeFromAll \in BOOLEAN, currentHeight \in Heights,
          now \in {CRYPTONOTE_MAX_BLOCK_NUMBER + 1} :
          \E subWalletsToTakeFrom \in KeyLists(takeFromAll) :
             getBalance(subWalletsToTakeFrom, takeFromAll, currentHeight, now)

(***************************************************************************)
(* Sub-wallet management alone: the constructors and the three calls that  *)
(* create sub-wallets.                                                     *)
(***************************************************************************)
NextWallets == AddSubWallet \/ ImportSubWallet \/ ImportViewSubWallet

SpecWallets == Init /\ [][NextWallets]_vars

(***************************************************************************)
(* C1: the set of keys in public_spend_keys equals the key set of          *)
(* sub_wallets, in every state reachable from either constructor by        *)
(* add_sub_wallet, import_sub_wallet and import_view_sub_wallet calls.     *)
(***************************************************************************)
C1_PublicSpendKeysAreSubWalletKeys ==
    Range(m_publicSpendKeys) = DOMAIN m_subWallets

(***************************************************************************)
(* The journal alone: a container as one of the constructors leaves it     *)
(* (one wallet, scan height 0, not new), then any calls of the journal's   *)
(* operations.                                                             *)
(***************************************************************************)
InitPlain ==
    /\ Init
    /\ DOMAIN m_subWallets = {1}
    /\ m_subWallets[1].syncStartHeight = 0
    /\ m_subWallets[1].syncStartTimestamp = 0

NextJournal ==
    \/ AddUnconfirmedTransaction
    \/ AddTransaction
    \/ RemoveForkedTransactions
    \/ RemoveCancelledTransactions
    \/ Reset

SpecJournal == InitPlain /\ [][NextJournal]_vars

(***************************************************************************)
(* C2: after remove_forked_transactions(fork_height) the confirmed list is *)
(* exactly the previous list filtered to the entries with                  *)
(* block_height < fork_height, in their original order.                    *)
(***************************************************************************)
C2_RemoveForkedFilters ==
    last.op = "removeForkedTransactions" =>
        m_transactions =
            Without(pre.transactions,
                    {tx \in Transaction : tx.blockHeight >= last.forkHeight})

(***************************************************************************)
(* C3: on a full wallet, after remove_cancelled_transactions(S) the locked *)
(* list is exactly the previous list filtered to the entries whose hash is *)
(* not in S, in original order.                                            *)
(***************************************************************************)
C3_RemoveCancelledFilters ==
    (last.op = "removeCancelledTransactions" /\ ~m_isViewWallet) =>
        m_lockedTransactions =
            Without(pre.lockedTransactions,
                    {tx \in Transaction : tx.hash \in last.cancelledTransactions})

(***************************************************************************)
(* C4: after reset(scan_height) the locked list is empty and the confirmed *)
(* list is exactly the previous one filtered to the entries with           *)
(* block_height < scan_height, in original order.                          *)
(***************************************************************************)
C4_ResetFilters ==
    last.op = "reset" =>
        /\ m_lockedTransactions = <<>>
        /\ m_transactions =
               Without(pre.transactions,
                       {tx \in Transaction : tx.blockHeight >= last.scanHeight})

(***************************************************************************)
(* C6: confirmation collapse.  From a state in which no journal entry has  *)
(* the hash of tx, add_unconfirmed(tx) followed by add_confirmed(tx) ends  *)
(* with tx in the confirmed list exactly once and no entry with its hash   *)
(* in the locked list.                                                     *)
(***************************************************************************)

(* The transactions that carry `hash'. *)
WithHash(hash) == {tx \in Transaction : tx.hash = hash}

(* add_confirmed(tx) has just returned, the call before it was             *)
(* add_unconfirmed(tx), and before that call no journal entry had tx.hash: *)
(* the entry that call appended is the only one with it.                   *)
CollapseCase ==
    /\ last.op = "addTransaction"
    /\ last2.op = "addUnconfirmedTransaction"
    /\ last2.tx = last.tx
    /\ Count(pre.lockedTransactions, WithHash(last.tx.hash)) = 1
    /\ Count(pre.transactions, WithHash(last.tx.hash)) = 0

C6_ConfirmationCollapse ==
    CollapseCase =>
        /\ Count(m_transactions, {last.tx}) = 1
        /\ Count(m_transactions, WithHash(last.tx.hash)) = 1
        /\ Count(m_lockedTransactions, WithHash(last.tx.hash)) = 0

(* The collapse happened next to another locked entry. *)
C6_Witness ==
    /\ CollapseCase
    /\ Len(pre.lockedTransactions) >= 2

(***************************************************************************)
(* C7: add_confirmed(tx) removes every locked entry whose hash is tx.hash, *)
(* leaves the other locked entries unchanged and in order, and appends tx  *)
(* as the last confirmed entry without altering the earlier ones.          *)
(***************************************************************************)
C7_AddConfirmedFrame ==
    last.op = "addTransaction" =>
        /\ m_lockedTransactions =
               Without(pre.lockedTransactions, WithHash(last.tx.hash))
        /\ m_transactions = Append(pre.transactions, last.tx)

(***************************************************************************)
(* Journal, stored inputs and reset: a container as a constructor leaves   *)
(* it, transactions and inputs coming in, and reset.                       *)
(***************************************************************************)
StoreScannedInput == StoreInput(PublicKeys, {1}, Heights, {0}, {1})

NextReset ==
    \/ AddUnconfirmedTransaction
    \/ AddTransaction
    \/ StoreScannedInput
    \/ Reset

SpecReset == InitPlain /\ [][NextReset]_vars

(***************************************************************************)
(* C5: reset round-trip.  From any reachable state, reset(0) yields empty  *)
(* `transactions', empty `locked_transactions' and empty input ledgers:    *)
(* the journal and ledger state of a freshly constructed container.        *)
(***************************************************************************)
C5_ResetRoundTrip ==
    (last.op = "reset" /\ last.scanHeight = 0) =>
        /\ m_transactions = <<>>
        /\ m_lockedTransactions = <<>>
        /\ \A k \in DOMAIN m_subWallets : m_subWallets[k].inputs = {}

(***************************************************************************)
(* Input selection: sub-wallets created, inputs stored, locked and spent,  *)
(* and inputs asked for.                                                   *)
(***************************************************************************)
InitFull == InitPlain /\ ~m_isViewWallet

(* Two sub-wallets, the primary one and a second one, added or imported,   *)
(* hold inputs of the amounts 1 and 2.                                     *)
SecondKey == {k \in {2} : k \notin DOMAIN m_subWallets}

AddSecondSubWallet == \E publicKey \in SecondKey : addSubWallet(publicKey, 1)

ImportSecondSubWallet ==
    \E publicKey \in SecondKey : importSubWallet(100 + publicKey, 0, FALSE, 1)

StoreSpendableInput == StoreInput(DOMAIN m_subWallets, {1, 2}, {0}, {0}, {1})

LockStoredInput ==
    \E publicKey \in DOMAIN m_subWallets :
        \E input \in m_subWallets[publicKey].inputs :
            markInputAsLocked(input.keyImage, publicKey)

SpendStoredInput ==
    \E publicKey \in DOMAIN m_subWallets :
        \E input \in m_subWallets[publicKey].inputs :
            markInputAsSpent(input.keyImage, publicKey, 1)

NextSelect ==
    \/ AddSecondSubWallet
    \/ ImportSecondSubWallet
    \/ StoreSpendableInput
    \/ LockStoredInput
    \/ SpendStoredInput
    \/ GetTransactionInputsForAmount

SpecSelect == InitFull /\ [][NextSelect]_vars

(* The keys getTransactionInputsForAmount / getBalance go through. *)
Consulted ==
    IF last.takeFromAll THEN m_publicSpendKeys ELSE last.subWalletsToTakeFrom

(* The amount a sub-wallet can spend: its unspent, unlocked inputs. *)
Spendable(subWallet) ==
    LET seq == SeqOf({i \in subWallet.inputs : i.spendHeight = 0 /\ ~i.locked})
    IN  SumSeq([n \in DOMAIN seq |-> seq[n].amount])

(* A selection ran on a full wallet, every key named an existing sub-wallet. *)
SelectionRan ==
    /\ last.op = "getTransactionInputsForAmount"
    /\ last.result \notin {"runtime_error", "out_of_range"}

C8_WitnessFails ==
    /\ SelectionRan
    /\ last.amount > 0
    /\ last.result # "returned"
    /\ \E k \in DOMAIN m_subWallets : m_subWallets[k].inputs # {}

(***************************************************************************)
(* C9: on a full wallet, get_transaction_inputs_for_amount(0, ...) returns *)
(* an empty input list and a sum of 0, whatever inputs the consulted       *)
(* sub-wallets hold.                                                       *)
(***************************************************************************)
C9_ZeroAmountTakesNothing ==
    (SelectionRan /\ last.amount = 0) =>
        /\ last.result = "returned"
        /\ last.inputsToUse = <<>>
        /\ last.foundMoney = 0

(***************************************************************************)
(* Balance: a full or a view container, a second sub-wallet, inputs with   *)
(* unlock times of both kinds, and the queries with takeFromAll.           *)
(***************************************************************************)
ImportSecondViewSubWallet ==
    \E publicKey \in SecondKey : importViewSubWallet(publicKey, 0, FALSE, 1)

StoreTimedInput ==
    StoreInput(DOMAIN m_subWallets, {1, 2}, {0},
               {0, 1, CRYPTONOTE_MAX_BLOCK_NUMBER + 1}, {1})

NextBalance ==
    \/ AddSecondSubWallet
    \/ ImportSecondSubWallet
    \/ ImportSecondViewSubWallet
    \/ StoreTimedInput
    \/ LockStoredInput
    \/ SpendStoredInput
    \/ GetBalance
    \/ GetTransactionInputsForAmount

SpecBalance == InitPlain /\ [][NextBalance]_vars

(* The sub-wallets of the container, each once. *)
AllSubWallets == SeqOf(DOMAIN m_subWallets)

(***************************************************************************)
(* C10: with take_from_all the queries consult every sub-wallet of the     *)
(* container, each exactly once: get_balance(_, true, h) is the sum of the *)
(* per-sub-wallet (unlocked, locked) balances over all keys of             *)
(* sub_wallets, and get_transaction_inputs_for_amount(amount, true, _)     *)
(* succeeds exactly when the spendable inputs of all sub-wallets reach the *)
(* amount.                                                                 *)
(***************************************************************************)
C10_TakeFromAllConsultsAll ==
    /\ (last.op = "getBalance" /\ last.takeFromAll /\ last.result = "returned") =>
          LET each == [i \in DOMAIN AllSubWallets |->
                          subWalletBalance(m_subWallets[AllSubWallets[i]],
                                           last.currentHeight, last.now)]
          IN  /\ last.unlockedBalance =
                     SumSeq([i \in DOMAIN each |-> each[i][1]])
              /\ last.lockedBalance =
                     SumSeq([i \in DOMAIN each |-> each[i][2]])
    /\ (SelectionRan /\ last.takeFromAll /\ last.amount > 0) =>
          ((last.result = "returned") <=>
              SumSeq([i \in DOMAIN AllSubWallets |->
                         Spendable(m_subWallets[AllSubWallets[i]])])
                  >= last.amount)

(***************************************************************************)
(* Fusion input selection and the locked hashes.                           *)
(***************************************************************************)

(* CryptoNote::parameters::FUSION_TX_MIN_INPUT_COUNT: the size from which  *)
(* a bucket is full.  The constant is set in the currency configuration,   *)
(* which is not part of the sources at hand; the selection depends on it   *)
(* only through the comparison with a bucket's size, and the model takes a *)
(* small value, with which two buckets are full within MaxFusionInputs.    *)
FUSION_TX_MIN_INPUT_COUNT == 2

(* int numberOfDigits = log10(amount), for amount >= 1: the integer part   *)
(* of the decimal logarithm.                                               *)
RECURSIVE log10(_)
log10(amount) == IF amount < 10 THEN 0 ELSE 1 + log10(amount \div 10)

(* The orders a container without a specified order can be walked in.     *)
Orders(set) == {o \in [1..Cardinality(set) -> set] : Range(o) = set}

RECURSIVE Concat(_)
Concat(seqs) == IF seqs = <<>> THEN <<>> ELSE Head(seqs) \o Concat(Tail(seqs))

(* The loop over bucketsToTakeFrom: each input is added, and the call      *)
(* returns once inputsToUse.size() >= maxInputsToTake; the test comes      *)
(* after the push_back.                                                    *)
takeFusionInputs(bucketsToTakeFrom, maxInputsToTake) ==
    LET inputs == Concat(bucketsToTakeFrom)
        enough == {j \in 1..Len(inputs) : j >= maxInputsToTake}
        n      == IF enough = {} THEN Len(inputs)
                  ELSE CHOOSE x \in enough : \A y \in enough : x <= y
    IN  [result |-> "returned", inputsToUse |-> SubSeq(inputs, 1, n),
         maxInputsToTake |-> maxInputsToTake,
         foundMoney |-> foundMoney(inputs, n)]

(* The buckets of the shuffled inputs, by power of ten, each in the order  *)
(* of the shuffle.                                                         *)
bucket(shuffled, numberOfDigits) ==
    SelectSeqP(shuffled, {i \in DOMAIN shuffled :
                             log10(shuffled[i].input.amount) = numberOfDigits})

(* The buckets counted as full only when they hold more than the minimum. *)
fullBuckets_StrictlyMore(shuffled) ==
    {d \in {log10(shuffled[i].input.amount) : i \in DOMAIN shuffled} :
        Len(bucket(shuffled, d)) > FUSION_TX_MIN_INPUT_COUNT}

(* The buckets with enough inputs for a fusion transaction:                *)
(* bucket.size() >= FUSION_TX_MIN_INPUT_COUNT.                             *)
fullBuckets(shuffled) ==
    {d \in {log10(shuffled[i].input.amount) : i \in DOMAIN shuffled} :
        Len(bucket(shuffled, d)) >= FUSION_TX_MIN_INPUT_COUNT}

(* SubWallets::getFusionTransactionInputs.  maxInputsToTake is what        *)
(* Currency::getApproximateMaximumInputCount returns for the mixin.        *)
(* std::shuffle leaves the inputs, and the full buckets, in any order; the *)
(* std::unordered_map of the buckets is walked in an unspecified order.    *)
getFusionTransactionInputs(takeFromAll, subWalletsToTakeFrom, maxInputsToTake) ==
    LET call == [op |-> "getFusionTransactionInputs",
                 takeFromAll |-> takeFromAll,
                 subWalletsToTakeFrom |-> subWalletsToTakeFrom]
        keys == IF takeFromAll THEN m_publicSpendKeys ELSE subWalletsToTakeFrom
    IN  /\ UNCHANGED fields
        /\ IF m_isViewWallet
           THEN Called(call @@ [result |-> "runtime_error"])
           ELSE IF \E i \in DOMAIN keys : keys[i] \notin DOMAIN m_subWallets
           THEN Called(call @@ [result |-> "out_of_range"])
           ELSE LET available == availableInputs(m_subWallets, keys)
                IN  \E order \in Permutations(DOMAIN available) :
                    LET shuffled == [i \in DOMAIN available |-> available[order[i]]]
                        digits == {log10(shuffled[i].input.amount) : i \in DOMAIN shuffled}
                        full == fullBuckets(shuffled)
                    IN  IF full # {}
                        THEN \E front \in full :
                                Called(call @@ takeFusionInputs(
                                    <<bucket(shuffled, front)>>, maxInputsToTake))
                        ELSE \E walk \in Orders(digits) :
                                Called(call @@ takeFusionInputs(
                                    [i \in DOMAIN walk |-> bucket(shuffled, walk[i])],
                                    maxInputsToTake))

(* SubWallets::getLockedTransactionsHashes *)
getLockedTransactionsHashes ==
    /\ UNCHANGED fields
    /\ IF m_isViewWallet
       THEN Called([op |-> "getLockedTransactionsHashes",
                    result |-> "runtime_error"])
       ELSE Called([op |-> "getLockedTransactionsHashes",
                    result |-> "returned",
                    hashes |-> {m_lockedTransactions[i].hash :
                                   i \in DOMAIN m_lockedTransactions}])

GetFusionTransactionInputs ==
    /\ ~QueryJustRan
    /\ \E takeFromAll \in BOOLEAN, maxInputsToTake \in 0..MaxInputs :
          \E subWalletsToTakeFrom \in KeyLists(takeFromAll) :
             getFusionTransactionInputs(takeFromAll, subWalletsToTakeFrom,
                                        maxInputsToTake)

GetLockedTransactionsHashes ==
    /\ ~QueryJustRan
    /\ getLockedTransactionsHashes

(***************************************************************************)
(* A view wallet: sub-wallets imported, inputs scanned, transactions       *)
(* journalled, and the operations that need a private spend key called.    *)
(***************************************************************************)
InitView == InitPlain /\ m_isViewWallet

StoreViewedInput == StoreInput(DOMAIN m_subWallets, {1}, {0}, {0}, {1})

NextView ==
    \/ ImportSecondViewSubWallet
    \/ StoreViewedInput
    \/ AddUnconfirmedTransaction
    \/ GetTransactionInputsForAmount
    \/ GetFusionTransactionInputs
    \/ MarkInputAsLocked
    \/ MarkInputAsSpent
    \/ RemoveCancelledTransactions
    \/ GetLockedTransactionsHashes

SpecView == InitView /\ [][NextView]_vars

(* The operations that need a private spend key. *)
SpendKeyOperations ==
    {"getTransactionInputsForAmount", "getFusionTransactionInputs",
     "markInputAsLocked", "markInputAsSpent", "removeCancelledTransactions",
     "getLockedTransactionsHashes"}

(***************************************************************************)
(* C11: on a view wallet every spend-key operation ends with the error     *)
(* outcome ILLEGAL_VIEW_WALLET_OPERATION, not with a raw runtime           *)
(* exception, and leaves the container unchanged.                          *)
(***************************************************************************)
C11_ViewWalletStructuredError ==
    (m_isViewWallet /\ last.op \in SpendKeyOperations) =>
        /\ last.result = "ILLEGAL_VIEW_WALLET_OPERATION"
        /\ Snapshot = pre

(***************************************************************************)
(* C12: sub-wallet creation fails with the specified error and changes     *)
(* nothing.  addSubWallet and importSubWallet on a view wallet return      *)
(* ILLEGAL_VIEW_WALLET_OPERATION, importViewSubWallet on a full wallet     *)
(* returns ILLEGAL_NON_VIEW_WALLET_OPERATION, an import of a public spend  *)
(* key that is in sub_wallets returns SUBWALLET_ALREADY_EXISTS; after a    *)
(* failed call the sub-wallets and the key list are as they were.          *)
(***************************************************************************)
C12_CreationFailsCleanly ==
    LET importedKey ==
            IF last.op = "importSubWallet"
            THEN secret_key_to_public_key(last.privateSpendKey)
            ELSE last.publicSpendKey
    IN  /\ (last.op \in {"addSubWallet", "importSubWallet"} /\ m_isViewWallet) =>
              last.result = "ILLEGAL_VIEW_WALLET_OPERATION"
        /\ (last.op = "importViewSubWallet" /\ ~m_isViewWallet) =>
              last.result = "ILLEGAL_NON_VIEW_WALLET_OPERATION"
        /\ (\/ last.op = "importSubWallet" /\ ~m_isViewWallet
            \/ last.op = "importViewSubWallet" /\ m_isViewWallet) =>
              (importedKey \in DOMAIN pre.subWallets <=>
                   last.result = "SUBWALLET_ALREADY_EXISTS")
        /\ (/\ last.op \in {"addSubWallet", "importSubWallet",
                            "importViewSubWallet"}
            /\ last.result # "SUCCESS") =>
              Snapshot = pre

(* The second import of a key: the first one had put it in the key list.   *)
C12_Witness ==
    /\ last.op = "importSubWallet"
    /\ last.result = "SUBWALLET_ALREADY_EXISTS"
    /\ Len(m_publicSpendKeys) >= 2
    /\ m_publicSpendKeys[Len(m_publicSpendKeys)] =
           secret_key_to_public_key(last.privateSpendKey)

(***************************************************************************)
(* The point to start the sync from.                                       *)
(***************************************************************************)

(* Utilities::scanHeightToTimestamp: height 0 is time 0; a block at        *)
(* `height' comes `height' block intervals (two units of time each) after  *)
(* the genesis block, whose time is the origin.                            *)
scanHeightToTimestamp(height) == IF height = 0 THEN 0 ELSE 2 * height

(* std::min_element over the values of a field of the sub-wallets. *)
min_element(values) == CHOOSE x \in values : \A y \in values : x <= y

(* getMinInitialSyncStart returning both minima as they are. *)
getMinInitialSyncStart_BothMinima ==
    LET minTimestamp == min_element({m_subWallets[k].syncStartTimestamp :
                                        k \in DOMAIN m_subWallets})
        minHeight == min_element({m_subWallets[k].syncStartHeight :
                                     k \in DOMAIN m_subWallets})
    IN  /\ UNCHANGED fields
        /\ Called([op |-> "getMinInitialSyncStart", result |-> "returned",
                   height |-> minHeight, timestamp |-> minTimestamp])

(* SubWallets::getMinInitialSyncStart *)
getMinInitialSyncStart ==
    LET minTimestamp == min_element({m_subWallets[k].syncStartTimestamp :
                                        k \in DOMAIN m_subWallets})
        minHeight == min_element({m_subWallets[k].syncStartHeight :
                                     k \in DOMAIN m_subWallets})
        timestampFromHeight == scanHeightToTimestamp(minHeight)
        returned == IF minHeight = 0 \/ minTimestamp = 0
                    THEN <<minHeight, minTimestamp>>
                    ELSE IF timestampFromHeight < minTimestamp
                    THEN <<minHeight, 0>>
                    ELSE <<0, minTimestamp>>
    IN  /\ UNCHANGED fields
        /\ Called([op |-> "getMinInitialSyncStart", result |-> "returned",
                   height |-> returned[1], timestamp |-> returned[2]])

GetMinInitialSyncStart ==
    /\ ~QueryJustRan
    /\ getMinInitialSyncStart

(* Times before and after the time of every block height in Heights. *)
SyncTimes == 1..(scanHeightToTimestamp(MaxHeight) + 1)

(* Either constructor, for the key 1, at any height and time. *)
InitSync ==
    /\ \E scanHeight \in Heights, newWallet \in BOOLEAN, now \in SyncTimes :
          \/ NewSubWallets(101, 100, privateKeysToAddress(101, 100),
                           scanHeight, newWallet, now)
          \/ NewViewSubWallets(100, publicKeysToAddress(1, 0),
                               scanHeight, newWallet, now)
    /\ last = [op |-> "constructor"]
    /\ last2 = [op |-> "other", tx |-> <<>>]
    /\ pre = Snapshot
    /\ NoneInside

ImportSyncedSubWallet ==
    \E publicKey \in SecondKey, scanHeight \in Heights, newWallet \in BOOLEAN,
       now \in SyncTimes :
        importSubWallet(100 + publicKey, scanHeight, newWallet, now)

ImportSyncedViewSubWallet ==
    \E publicKey \in SecondKey, scanHeight \in Heights, newWallet \in BOOLEAN,
       now \in SyncTimes :
        importViewSubWallet(publicKey, scanHeight, newWallet, now)

NextSync ==
    \/ AddSecondSubWallet
    \/ ImportSyncedSubWallet
    \/ ImportSyncedViewSubWallet
    \/ GetMinInitialSyncStart

SpecSync == InitSync /\ [][NextSync]_vars

(***************************************************************************)
(* C13: get_min_initial_sync_start ignores unset (zero) values.  For a     *)
(* container of two sub-wallets with the sync starts (H = h, T = 0) and    *)
(* (H = 0, T = t), h > 0 and t > 0, it returns (h, 0) when                 *)
(* scan_height_to_timestamp(h) < t, and (0, t) otherwise.                  *)
(***************************************************************************)
C13_MinSyncStartIgnoresZero ==
    (last.op = "getMinInitialSyncStart") =>
        \A a, b \in DOMAIN m_subWallets :
            LET h == m_subWallets[a].syncStartHeight
                t == m_subWallets[b].syncStartTimestamp
            IN  (/\ DOMAIN m_subWallets = {a, b}
                 /\ h > 0 /\ m_subWallets[a].syncStartTimestamp = 0
                 /\ t > 0 /\ m_subWallets[b].syncStartHeight = 0) =>
                    <<last.height, last.timestamp>> =
                        IF scanHeightToTimestamp(h) < t THEN <<h, 0>>
                        ELSE <<0, t>>

(***************************************************************************)
(* C14: the pair (height, timestamp) get_min_initial_sync_start returns    *)
(* has at most one nonzero component, whatever the sync starts of the      *)
(* sub-wallets are, and the call does not modify the container.            *)
(***************************************************************************)
C14_AtMostOneNonzero ==
    (last.op = "getMinInitialSyncStart") =>
        /\ last.height = 0 \/ last.timestamp = 0
        /\ Snapshot = pre

(* Every sub-wallet of two or more has both a height and a timestamp, and  *)
(* the height is the earlier one.                                          *)
C14_Witness ==
    /\ last.op = "getMinInitialSyncStart"
    /\ Cardinality(DOMAIN m_subWallets) >= 2
    /\ \A k \in DOMAIN m_subWallets :
          /\ m_subWallets[k].syncStartHeight > 0
          /\ m_subWallets[k].syncStartTimestamp > 0
    /\ last.height > 0

(***************************************************************************)
(* Fusion: a full wallet whose primary sub-wallet holds up to              *)
(* MaxFusionInputs scanned outputs, of amounts of one and of two digits.   *)
(***************************************************************************)

(* The ledger after the scanner stored the outputs 1..n of the amounts     *)
(* given; the outputs are numbered in the order of their amounts.          *)
ScannedInputs(publicSpendKey, amounts) ==
    {[TransactionInput(<<i, 0>>, amounts[i], 0, 0, 1)
         EXCEPT !.keyImage = generate_key_image(<<i, 0>>, publicSpendKey)]
     : i \in DOMAIN amounts}

InitFunded ==
    /\ \E amounts \in SeqsUpTo({1, 2, 10}, MaxFusionInputs) :
          /\ \A i \in 1..(Len(amounts) - 1) : amounts[i] <= amounts[i + 1]
          /\ m_subWallets = (1 :>
                 [SubWallet(1, 101, privateKeysToAddress(101, 100), 0, 0, TRUE)
                     EXCEPT !.inputs = ScannedInputs(1, amounts)])
    /\ m_privateViewKey = 100
    /\ m_isViewWallet = FALSE
    /\ m_publicSpendKeys = <<1>>
    /\ m_transactions = <<>>
    /\ m_lockedTransactions = <<>>
    /\ last = [op |-> "completeAndStoreTransactionInput"]
    /\ last2 = [op |-> "other", tx |-> <<>>]
    /\ pre = Snapshot
    /\ NoneInside

GetFusionInputsOfWallet ==
    /\ ~QueryJustRan
    /\ \E takeFromAll \in BOOLEAN, maxInputsToTake \in 0..MaxInputs :
          getFusionTransactionInputs(takeFromAll,
              IF takeFromAll THEN <<>> ELSE <<1>>, maxInputsToTake)

NextFusion ==
    \/ LockStoredInput
    \/ GetFusionInputsOfWallet

SpecFusion == InitFunded /\ [][NextFusion]_vars

(* A fusion selection ran on a full wallet, over existing sub-wallets. *)
FusionRan ==
    /\ last.op = "getFusionTransactionInputs"
    /\ last.result = "returned"

(* The spendable inputs of the consulted sub-wallets. *)
Candidates ==
    UNION {getInputs(m_subWallets[Consulted[i]]) : i \in DOMAIN Consulted}

(* The full buckets among them, by floor(log10(amount)). *)
FullDigits ==
    {d \in {log10(c.input.amount) : c \in Candidates} :
        Cardinality({c \in Candidates : log10(c.input.amount) = d})
            >= FUSION_TX_MIN_INPUT_COUNT}

(***************************************************************************)
(* C15: fusion bucketing.  When at least one bucket (the inputs grouped by *)
(* floor(log10(amount))) has FUSION_TX_MIN_INPUT_COUNT members or more,    *)
(* every returned input comes from one single full bucket; when no bucket  *)
(* is full, the inputs are taken from the concatenation of all buckets:    *)
(* bucket after bucket, each bucket's inputs together.                     *)
(***************************************************************************)
C15_FusionBucketing ==
    FusionRan =>
        LET used == last.inputsToUse
            digit(i) == log10(used[i].input.amount)
        IN  /\ FullDigits # {} =>
                  \E d \in FullDigits : \A i \in DOMAIN used : digit(i) = d
            /\ FullDigits = {} =>
                  /\ Range(used) \subseteq Candidates
                  /\ \A i, j, k \in DOMAIN used :
                        (i < j /\ j < k /\ digit(i) = digit(k)) =>
                            digit(j) = digit(i)

(* Two buckets are full, and more than one input is returned. *)
C15_Witness ==
    /\ FusionRan
    /\ Cardinality(FullDigits) >= 2
    /\ Len(last.inputsToUse) >= 2

(* No bucket is full, and inputs of two buckets are returned. *)
C15_WitnessNoneFull ==
    /\ FusionRan
    /\ FullDigits = {}
    /\ \E i, j \in DOMAIN last.inputsToUse :
          log10(last.inputsToUse[i].input.amount)
              # log10(last.inputsToUse[j].input.amount)

(***************************************************************************)
(* Sub-wallet creation on both kinds of container, each key created,       *)
(* imported and imported again.                                            *)
(***************************************************************************)
CreateSubWallet ==
    \E publicKey \in PublicKeys \ DOMAIN m_subWallets : addSubWallet(publicKey, 1)

ImportAnySubWallet ==
    \E privateSpendKey \in SecretKeys, scanHeight \in Heights,
       newWallet \in BOOLEAN :
        importSubWallet(privateSpendKey, scanHeight, newWallet, 1)

ImportAnyViewSubWallet ==
    \E publicSpendKey \in PublicKeys, scanHeight \in Heights,
       newWallet \in BOOLEAN :
        importViewSubWallet(publicSpendKey, scanHeight, newWallet, 1)

NextCreate ==
    \/ CreateSubWallet
    \/ ImportAnySubWallet
    \/ ImportAnyViewSubWallet

SpecCreate == InitPlain /\ [][NextCreate]_vars

(***************************************************************************)
(* C16: get_fusion_transaction_inputs on a full wallet never fails and     *)
(* returns (inputs, max_inputs, found_money) where the number of inputs    *)
(* never exceeds max_inputs, whatever max_inputs is (0 included),          *)
(* found_money is the sum of the returned inputs' amounts, and the         *)
(* returned inputs are distinct spendable inputs of the consulted          *)
(* sub-wallets.                                                            *)
(***************************************************************************)
C16_FusionWithinMax ==
    (/\ last.op = "getFusionTransactionInputs"
     /\ ~m_isViewWallet
     /\ last.result # "out_of_range") =>
        /\ last.result = "returned"
        /\ Len(last.inputsToUse) <= last.maxInputsToTake
        /\ last.foundMoney =
               SumSeq([i \in DOMAIN last.inputsToUse |->
                          last.inputsToUse[i].input.amount])
        /\ \A i, j \in DOMAIN last.inputsToUse :
              i # j => last.inputsToUse[i] # last.inputsToUse[j]
        /\ Range(last.inputsToUse) \subseteq Candidates

(***************************************************************************)
(* Threads.  The methods of the journal, statement by statement, run by    *)
(* threads that share the container.  std::scoped_lock lock(m_mutex) waits *)
(* until the mutex is free and takes it; it is released when the method    *)
(* returns.  getTransactions and getUnconfirmedTransactions copy the       *)
(* vector they return without taking the mutex.                            *)
(***************************************************************************)
Free(t) == threads[t].pc \in {"idle", "returned"}

At(t, pc) == threads[t].pc = pc

Goto(t, frame) == threads' = [threads EXCEPT ![t] = frame]

Bookkeeping == <<last, last2, pre>>

(* std::scoped_lock lock(m_mutex) of addTransaction *)
CallAddTransaction(t) ==
    /\ Free(t) /\ m_mutex = NoThread
    /\ Len(m_transactions) < MaxTxs
    /\ \E tx \in Transaction :
          Goto(t, [pc |-> "remove_if", op |-> "addTransaction", tx |-> tx])
    /\ m_mutex' = t
    /\ UNCHANGED <<fields, Bookkeeping>>

(* const auto it = std::remove_if(m_lockedTransactions...) *)
AddTransactionRemoveIf(t) ==
    /\ At(t, "remove_if")
    /\ LET SameHash == {transaction \in Range(m_lockedTransactions) :
                           threads[t].tx.hash = transaction.hash}
           r == remove_if(m_lockedTransactions, SameHash)
       IN  /\ m_lockedTransactions' = r.array
           /\ Goto(t, [threads[t] EXCEPT !.pc = "erase"] @@ [it |-> r.it])
    /\ UNCHANGED <<m_subWallets, m_publicSpendKeys, m_transactions,
                   m_privateViewKey, m_isViewWallet, m_mutex, Bookkeeping>>

(* if (it != m_lockedTransactions.end()) m_lockedTransactions.erase(it) *)
AddTransactionErase(t) ==
    /\ At(t, "erase")
    /\ m_lockedTransactions' =
           IF threads[t].it # Len(m_lockedTransactions) + 1
           THEN erase(m_lockedTransactions, threads[t].it)
           ELSE m_lockedTransactions
    /\ Goto(t, [threads[t] EXCEPT !.pc = "push_back"])
    /\ UNCHANGED <<m_subWallets, m_publicSpendKeys, m_transactions,
                   m_privateViewKey, m_isViewWallet, m_mutex, Bookkeeping>>

(* m_transactions.push_back(tx) *)
AddTransactionPushBack(t) ==
    /\ At(t, "push_back")
    /\ m_transactions' = Append(m_transactions, threads[t].tx)
    /\ Goto(t, [threads[t] EXCEPT !.pc = "unlock"])
    /\ UNCHANGED <<m_subWallets, m_publicSpendKeys, m_lockedTransactions,
                   m_privateViewKey, m_isViewWallet, m_mutex, Bookkeeping>>

(* std::scoped_lock lock(m_mutex) of addUnconfirmedTransaction *)
CallAddUnconfirmedTransaction(t) ==
    /\ Free(t) /\ m_mutex = NoThread
    /\ JournalHasRoom
    /\ \E tx \in Transaction :
          Goto(t, [pc |-> "push_back_locked",
                   op |-> "addUnconfirmedTransaction", tx |-> tx])
    /\ m_mutex' = t
    /\ UNCHANGED <<fields, Bookkeeping>>

(* m_lockedTransactions.push_back(tx) *)
AddUnconfirmedPushBack(t) ==
    /\ At(t, "push_back_locked")
    /\ m_lockedTransactions' = Append(m_lockedTransactions, threads[t].tx)
    /\ Goto(t, [threads[t] EXCEPT !.pc = "unlock"])
    /\ UNCHANGED <<m_subWallets, m_publicSpendKeys, m_transactions,
                   m_privateViewKey, m_isViewWallet, m_mutex, Bookkeeping>>

(* The end of the scope of the std::scoped_lock. *)
Unlock(t) ==
    /\ At(t, "unlock")
    /\ m_mutex' = NoThread
    /\ Goto(t, [pc |-> "returned", op |-> threads[t].op])
    /\ UNCHANGED <<fields, Bookkeeping>>

(* getTransactions is entered: no lock is taken. *)
CallGetTransactions(t) ==
    /\ Free(t)
    /\ Goto(t, [pc |-> "copy", op |-> "getTransactions"])
    /\ UNCHANGED <<fields, m_mutex, Bookkeeping>>

(* return m_transactions *)
ReturnTransactions(t) ==
    /\ At(t, "copy") /\ threads[t].op = "getTransactions"
    /\ Goto(t, [pc |-> "returned", op |-> "getTransactions",
                value |-> m_transactions])
    /\ UNCHANGED <<fields, m_mutex, Bookkeeping>>

(* getUnconfirmedTransactions is entered: no lock is taken. *)
CallGetUnconfirmedTransactions(t) ==
    /\ Free(t)
    /\ Goto(t, [pc |-> "copy", op |-> "getUnconfirmedTransactions"])
    /\ UNCHANGED <<fields, m_mutex, Bookkeeping>>

(* return m_lockedTransactions *)
ReturnUnconfirmedTransactions(t) ==
    /\ At(t, "copy") /\ threads[t].op = "getUnconfirmedTransactions"
    /\ Goto(t, [pc |-> "returned", op |-> "getUnconfirmedTransactions",
                value |-> m_lockedTransactions])
    /\ UNCHANGED <<fields, m_mutex, Bookkeeping>>

(* std::scoped_lock lock(m_mutex) of getLockedTransactionsHashes, on a     *)
(* full wallet.                                                            *)
CallGetLockedTransactionsHashes(t) ==
    /\ Free(t) /\ m_mutex = NoThread
    /\ ~m_isViewWallet
    /\ Goto(t, [pc |-> "insert", op |-> "getLockedTransactionsHashes"])
    /\ m_mutex' = t
    /\ UNCHANGED <<fields, Bookkeeping>>

(* for (const auto transaction : m_lockedTransactions) result.insert(...)  *)
CollectLockedHashes(t) ==
    /\ At(t, "insert")
    /\ Goto(t, [pc |-> "unlock", op |-> "getLockedTransactionsHashes",
                value |-> {m_lockedTransactions[i].hash :
                              i \in DOMAIN m_lockedTransactions}])
    /\ UNCHANGED <<fields, m_mutex, Bookkeeping>>

NextThreads ==
    \E t \in Threads :
        \/ CallAddTransaction(t)
        \/ AddTransactionRemoveIf(t)
        \/ AddTransactionErase(t)
        \/ AddTransactionPushBack(t)
        \/ CallAddUnconfirmedTransaction(t)
        \/ AddUnconfirmedPushBack(t)
        \/ Unlock(t)
        \/ CallGetTransactions(t)
        \/ ReturnTransactions(t)
        \/ CallGetUnconfirmedTransactions(t)
        \/ ReturnUnconfirmedTransactions(t)
        \/ CallGetLockedTransactionsHashes(t)
        \/ CollectLockedHashes(t)

SpecThreads == InitFull /\ [][NextThreads]_vars

(* The thread is at a statement that reads the journal. *)
Reading(t) == threads[t].pc \in {"copy", "insert"}

(* The thread is inside a method that changes the journal. *)
Mutating(t) ==
    threads[t].pc \in {"remove_if", "erase", "push_back", "push_back_locked"}

(***************************************************************************)
(* C17: every operation that reads or writes sub_wallets, transactions or  *)
(* locked_transactions holds the container mutex for the whole access: no  *)
(* thread reads one of these collections while another thread is inside a  *)
(* mutating operation.                                                     *)
(***************************************************************************)
C17_AccessUnderMutex ==
    /\ \A t \in Threads : (Reading(t) \/ Mutating(t)) => m_mutex = t
    /\ \A r, w \in Threads : ~(r # w /\ Reading(r) /\ Mutating(w))

(***************************************************************************)
(* The input ledgers: outputs scanned at any height, locked, spent,        *)
(* cancelled, rolled back and reset, in any order.                         *)
(***************************************************************************)
StoreLedgerInput == StoreInput(DOMAIN m_subWallets, {1}, Heights, {0}, {1})

NextLedger ==
    \/ ImportSecondSubWallet
    \/ StoreLedgerInput
    \/ LockStoredInput
    \/ SpendStoredInput
    \/ RemoveCancelledTransactions
    \/ RemoveForkedTransactions
    \/ Reset

SpecLedger == InitFull /\ [][NextLedger]_vars

(***************************************************************************)
(* C18: in every state reachable by complete_and_store_input,              *)
(* mark_input_as_locked, mark_input_as_spent,                              *)
(* remove_cancelled_transactions, remove_forked_transactions and reset in  *)
(* any order, every input with spend_height > 0 has locked = false.        *)
(***************************************************************************)
C18_SpentNeverLocked ==
    \A k \in DOMAIN m_subWallets :
        \A input \in m_subWallets[k].inputs :
            input.spendHeight > 0 => ~input.locked

(***************************************************************************)
(* Spending and rolling back: outputs scanned at any height in two         *)
(* sub-wallets, locked, spent, and rolled back by a fork.                  *)
(***************************************************************************)
NextRollback ==
    \/ ImportSecondSubWallet
    \/ StoreLedgerInput
    \/ LockStoredInput
    \/ SpendStoredInput
    \/ RemoveForkedTransactions

SpecRollback == InitFull /\ [][NextRollback]_vars

(***************************************************************************)
(* C19: idempotent spend.  On a full wallet, mark_input_as_spent(ki, h)    *)
(* called again right after mark_input_as_spent(ki, h), for the same       *)
(* owner, leaves the container exactly as the first call left it.          *)
(***************************************************************************)
C19_IdempotentSpend ==
    [][(/\ last.op = "markInputAsSpent"
        /\ last.result = "returned"
        /\ last' = last) => UNCHANGED fields]_vars

(* The second of two equal calls: the input was spent at that height when  *)
(* the call started.                                                       *)
C19_Witness ==
    /\ last.op = "markInputAsSpent"
    /\ last.result = "returned"
    /\ \E input \in pre.subWallets[last.publicKey].inputs :
          /\ input.keyImage = last.keyImage
          /\ input.spendHeight = last.spendHeight
    /\ Snapshot = pre

(***************************************************************************)
(* C20: fork rollback of inputs.  After                                    *)
(* remove_forked_transactions(fork_height), in every sub-wallet no input   *)
(* with block_height >= fork_height remains, every remaining input that    *)
(* had spend_height >= fork_height has spend_height = 0 and locked =       *)
(* false, and every other input is unchanged.                              *)
(***************************************************************************)
C20_ForkRollsBackInputs ==
    (last.op = "removeForkedTransactions") =>
        /\ DOMAIN m_subWallets = DOMAIN pre.subWallets
        /\ \A k \in DOMAIN m_subWallets :
              LET before == pre.subWallets[k].inputs
                  after  == m_subWallets[k].inputs
                  f      == last.forkHeight
              IN  /\ \A i \in after : i.blockHeight < f
                  /\ \A old \in before :
                        old.blockHeight < f =>
                            IF old.spendHeight >= f
                            THEN [old EXCEPT !.spendHeight = 0,
                                             !.locked = FALSE] \in after
                            ELSE old \in after
                  /\ Cardinality(after) =
                         Cardinality({old \in before : old.blockHeight < f})
                  /\ [m_subWallets[k] EXCEPT !.inputs = {}] =
                         [pre.subWallets[k] EXCEPT !.inputs = {}]

(* A rollback that deleted one input and unspent another. *)
C20_Witness ==
    /\ last.op = "removeForkedTransactions"
    /\ \E k \in DOMAIN pre.subWallets :
          \E gone \in pre.subWallets[k].inputs :
             gone.blockHeight >= last.forkHeight
    /\ \E k \in DOMAIN pre.subWallets :
          \E old \in pre.subWallets[k].inputs :
             /\ old.blockHeight < last.forkHeight
             /\ old.spendHeight >= last.forkHeight
             /\ [old EXCEPT !.spendHeight = 0, !.locked = FALSE]
                    \in m_subWallets[k].inputs

(***************************************************************************)
(* The primary address.                                                    *)
(***************************************************************************)

(* SubWallets::getPrimaryAddress.  std::find_if walks the unordered map in *)
(* an unspecified order and stops at the first primary sub-wallet; with    *)
(* none it throws std::runtime_error.                                      *)
getPrimaryAddress ==
    LET primary == {k \in DOMAIN m_subWallets : m_subWallets[k].isPrimaryAddress}
    IN  /\ UNCHANGED fields
        /\ IF primary = {}
           THEN Called([op |-> "getPrimaryAddress",
                        result |-> "runtime_error: This container has no primary address!"])
           ELSE \E it \in primary :
                   Called([op |-> "getPrimaryAddress", result |-> "returned",
                           address |-> m_subWallets[it].address])

GetPrimaryAddress ==
    /\ ~QueryJustRan
    /\ getPrimaryAddress

(***************************************************************************)
(* Either kind of container: sub-wallets created and imported, outputs     *)
(* scanned, the chain rolled back, the container reset, and the primary    *)
(* address asked for.                                                      *)
(***************************************************************************)
(* The scanner finds outputs of the primary sub-wallet. *)
StorePrimaryInput == StoreInput({m_publicSpendKeys[1]}, {1}, {0}, {0}, {1})

NextPrimary ==
    \/ CreateSubWallet
    \/ ImportAnySubWallet
    \/ ImportAnyViewSubWallet
    \/ StorePrimaryInput
    \/ RemoveForkedTransactions
    \/ Reset
    \/ GetPrimaryAddress

SpecPrimary == InitPlain /\ [][NextPrimary]_vars

(* The sub-wallets marked as primary. *)
PrimarySubWallets ==
    {k \in DOMAIN m_subWallets : m_subWallets[k].isPrimaryAddress}

(***************************************************************************)
(* C21: in every state reachable from either constructor, exactly one      *)
(* sub-wallet has is_primary = true, and it is the one the constructor     *)
(* created (the first key of public_spend_keys); get_primary_address       *)
(* therefore never fails for want of a primary address, and returns that   *)
(* sub-wallet's address.                                                   *)
(***************************************************************************)
C21_ExactlyOnePrimary ==
    /\ Cardinality(PrimarySubWallets) = 1
    /\ PrimarySubWallets = {m_publicSpendKeys[1]}
    /\ last.op = "getPrimaryAddress" =>
          /\ last.result = "returned"
          /\ last.address = m_subWallets[m_publicSpendKeys[1]].address

(* The primary address asked for in a container of several sub-wallets,    *)
(* one of them created by addSubWallet.                                    *)
C21_Witness ==
    /\ last.op = "getPrimaryAddress"
    /\ Cardinality(DOMAIN m_subWallets) >= 2
    /\ Cardinality(DOMAIN m_subWallets) > Len(m_publicSpendKeys)

(***************************************************************************)
(* Queries with a list of sub-wallets: a full wallet of one or two         *)
(* sub-wallets that hold inputs, and the three queries called with         *)
(* takeFromAll = false and any list of existing keys, repeated keys        *)
(* included.                                                               *)
(***************************************************************************)

(* The lists of keys of existing sub-wallets, in any order, with repeats.  *)
NamedKeyLists == SeqsUpTo(DOMAIN m_subWallets, MaxList + 1)

GetInputsOfNamed ==
    /\ ~QueryJustRan
    /\ \E amount \in 1..(MaxInputs + 1), subWalletsToTakeFrom \in NamedKeyLists :
          getTransactionInputsForAmount(amount, FALSE, subWalletsToTakeFrom)

GetFusionInputsOfNamed ==
    /\ ~QueryJustRan
    /\ \E maxInputsToTake \in 1..MaxInputs, subWalletsToTakeFrom \in NamedKeyLists :
          getFusionTransactionInputs(FALSE, subWalletsToTakeFrom, maxInputsToTake)

GetBalanceOfNamed ==
    /\ ~QueryJustRan
    /\ \E subWalletsToTakeFrom \in NamedKeyLists :
          getBalance(subWalletsToTakeFrom, FALSE, 0, 0)

NextNamed ==
    \/ ImportSecondSubWallet
    \/ StoreSpendableInput
    \/ GetInputsOfNamed
    \/ GetFusionInputsOfNamed
    \/ GetBalanceOfNamed

SpecNamed == InitFull /\ [][NextNamed]_vars

(***************************************************************************)
(* C22: with take_from_all = false and any list of existing sub-wallets,   *)
(* a list that names a sub-wallet more than once included, the inputs one  *)
(* call of get_transaction_inputs_for_amount or                            *)
(* get_fusion_transaction_inputs returns are pairwise distinct (no key     *)
(* image twice), and get_balance counts the balance of each named          *)
(* sub-wallet once.                                                        *)
(***************************************************************************)
C22_NamedOnce ==
    /\ (/\ last.op \in {"getTransactionInputsForAmount",
                        "getFusionTransactionInputs"}
        /\ ~last.takeFromAll
        /\ last.result = "returned") =>
          \A i, j \in DOMAIN last.inputsToUse :
              i # j => last.inputsToUse[i].input.keyImage
                           # last.inputsToUse[j].input.keyImage
    /\ (/\ last.op = "getBalance"
        /\ ~last.takeFromAll
        /\ last.result = "returned") =>
          LET named == SeqOf(Range(last.subWalletsToTakeFrom))
              each == [i \in DOMAIN named |->
                          subWalletBalance(m_subWallets[named[i]],
                                           last.currentHeight, last.now)]
          IN  /\ last.unlockedBalance =
                     SumSeq([i \in DOMAIN each |-> each[i][1]])
              /\ last.lockedBalance =
                     SumSeq([i \in DOMAIN each |-> each[i][2]])

(***************************************************************************)
(* Building a transaction: the outputs of one sub-wallet scanned, selected *)
(* for a transaction, locked, spent, and released again by a cancellation, *)
(* a fork or a reset.                                                      *)
(***************************************************************************)
StoreOwnInput == StoreInput(DOMAIN m_subWallets, {1}, {0}, {0}, {1})

NextBuild ==
    \/ StoreOwnInput
    \/ GetTransactionInputsForAmount
    \/ GetFusionInputsOfWallet
    \/ LockStoredInput
    \/ SpendStoredInput
    \/ RemoveCancelledTransactions
    \/ RemoveForkedTransactions
    \/ Reset

SpecBuild == InitFull /\ [][NextBuild]_vars

(* The sub-wallet publicKey of subWallets holds the input keyImage as      *)
(* locked or spent.                                                        *)
Held(subWallets, publicKey, keyImage) ==
    \E input \in subWallets[publicKey].inputs :
        /\ input.keyImage = keyImage
        /\ input.locked \/ input.spendHeight > 0

(* It holds the input as unspent and unlocked. *)
Available(subWallets, publicKey, keyImage) ==
    \E input \in subWallets[publicKey].inputs :
        /\ input.keyImage = keyImage
        /\ ~input.locked /\ input.spendHeight = 0

(***************************************************************************)
(* C23: once mark_input_as_locked(ki, pk) or mark_input_as_spent(ki, pk,   *)
(* h), h the height of the block of the spend (h >= 1), has completed, the *)
(* input ki is held back; an input held back stays so across every call    *)
(* but remove_cancelled_transactions, remove_forked_transactions and       *)
(* reset; and a selection (get_transaction_inputs_for_amount,              *)
(* get_fusion_transaction_inputs) returns no input that is held back and   *)
(* changes no input.  Hence no selection after the mark returns ki until   *)
(* one of the three calls releases it.                                     *)
(***************************************************************************)
C23_MarkedInputsNotSelected ==
    [][/\ (/\ last'.op \in {"markInputAsLocked", "markInputAsSpent"}
           /\ last'.result = "returned") =>
             \A input \in m_subWallets'[last'.publicKey].inputs :
                 input.keyImage = last'.keyImage =>
                     Held(m_subWallets', last'.publicKey, last'.keyImage)
       /\ \A k \in DOMAIN m_subWallets :
             \A input \in m_subWallets[k].inputs :
                 (/\ Held(m_subWallets, k, input.keyImage)
                  /\ Available(m_subWallets', k, input.keyImage)) =>
                     last'.op \in {"removeCancelledTransactions",
                                   "removeForkedTransactions", "reset"}
       /\ (/\ last'.op \in {"getTransactionInputsForAmount",
                            "getFusionTransactionInputs"}
           /\ last'.result = "returned") =>
             /\ UNCHANGED fields
             /\ \A i \in DOMAIN last'.inputsToUse :
                   /\ ~Held(m_subWallets, last'.inputsToUse[i].publicSpendKey,
                            last'.inputsToUse[i].input.keyImage)
                   /\ Available(m_subWallets,
                                 last'.inputsToUse[i].publicSpendKey,
                                 last'.inputsToUse[i].input.keyImage)
      ]_vars

(* A selection returned an input while the sub-wallet's other input was    *)
(* held back, after a call had released an input.                          *)
C23_Witness ==
    /\ last.op = "getTransactionInputsForAmount"
    /\ last.result = "returned"
    /\ Len(last.inputsToUse) = 1
    /\ \E input \in m_subWallets[1].inputs :
          Held(m_subWallets, 1, input.keyImage)
    /\ Cardinality(m_subWallets[1].inputs) = 2
    /\ last.amount = 1

(***************************************************************************)
(* Scanning: either kind of container with one or two sub-wallets and a    *)
(* journal; the scanner hands over outputs for the keys it was given,      *)
(* whether or not the container has a sub-wallet of that key.  The         *)
(* one-time key of an output is derived from its owner's public spend key: *)
(* outputs of different owners have different keys.                        *)
(***************************************************************************)
StoreOwnedInput ==
    /\ LedgerHasRoom
    /\ \E publicSpendKey \in PublicKeys, derivation \in OutputKeys :
          completeAndStoreTransactionInput(publicSpendKey, derivation, 0,
              TransactionInput(<<derivation, 0, publicSpendKey>>, 1, 0, 0, 1))

(* The wallet sends a transaction. *)
AddSentTransaction ==
    /\ JournalHasRoom
    /\ addUnconfirmedTransaction([hash |-> 1, blockHeight |-> 0])

NextScan ==
    \/ ImportSecondSubWallet
    \/ ImportSecondViewSubWallet
    \/ AddSentTransaction
    \/ StoreOwnedInput

SpecScan == InitPlain /\ [][NextScan]_vars

(***************************************************************************)
(* C24: complete_and_store_input(public_spend_key, ...) changes only the   *)
(* input ledger of the sub-wallet keyed by public_spend_key, which gains   *)
(* at most the input handed over: the journal, public_spend_keys and every *)
(* other sub-wallet are unchanged; when public_spend_key is not a key of   *)
(* sub_wallets the container is unchanged and no sub-wallet is created.    *)
(* Every stored output is therefore in the ledger of one sub-wallet only.  *)
(***************************************************************************)
C24_StoreTouchesOneLedger ==
    /\ last.op = "completeAndStoreTransactionInput" =>
          /\ m_transactions = pre.transactions
          /\ m_lockedTransactions = pre.lockedTransactions
          /\ m_publicSpendKeys = pre.publicSpendKeys
          /\ DOMAIN m_subWallets = DOMAIN pre.subWallets
          /\ \A k \in DOMAIN m_subWallets \ {last.publicSpendKey} :
                m_subWallets[k] = pre.subWallets[k]
          /\ last.publicSpendKey \notin DOMAIN pre.subWallets => Snapshot = pre
          /\ last.publicSpendKey \in DOMAIN pre.subWallets =>
                LET before == pre.subWallets[last.publicSpendKey]
                    after  == m_subWallets[last.publicSpendKey]
                IN  /\ [after EXCEPT !.inputs = {}] = [before EXCEPT !.inputs = {}]
                    /\ before.inputs \subseteq after.inputs
                    /\ \A input \in after.inputs \ before.inputs :
                          input.key = last.input.key
                    /\ Cardinality(after.inputs \ before.inputs) <= 1
    /\ \A a, b \in DOMAIN m_subWallets :
          a # b => {i.key : i \in m_subWallets[a].inputs}
                      \cap {i.key : i \in m_subWallets[b].inputs} = {}

(* An output stored in the second of two sub-wallets, the first holding    *)
(* one already, with an entry in the journal.                              *)
C24_Witness ==
    /\ last.op = "completeAndStoreTransactionInput"
    /\ DOMAIN m_subWallets = {1, 2}
    /\ last.publicSpendKey = 2
    /\ m_subWallets[2].inputs # pre.subWallets[2].inputs
    /\ m_subWallets[1].inputs # {}
    /\ m_lockedTransactions # <<>>

(* An output handed over for a key the container has no sub-wallet of.     *)
C24_WitnessUnknownKey ==
    /\ last.op = "completeAndStoreTransactionInput"
    /\ last.publicSpendKey \notin DOMAIN m_subWallets
    /\ \E k \in DOMAIN m_subWallets : m_subWallets[k].inputs # {}

(***************************************************************************)
(* C25: the wallet kind is fixed and homogeneous.  is_view_wallet never    *)
(* changes after construction, and in every state reached by add and       *)
(* import calls a view container holds no sub-wallet with a private spend  *)
(* key, a full container none without one.                                 *)
(***************************************************************************)
C25_KindFixedAndHomogeneous ==
    /\ [](\A k \in DOMAIN m_subWallets :
             m_isViewWallet <=> m_subWallets[k].privateSpendKey = NullKey)
    /\ [][m_isViewWallet' = m_isViewWallet]_vars

(* A view container of two sub-wallets has refused a private spend key, or *)
(* a full one of two sub-wallets a public one.                             *)
C25_Witness ==
    /\ Cardinality(DOMAIN m_subWallets) >= 2
    /\ \/ /\ m_isViewWallet
          /\ last.op = "importSubWallet"
       \/ /\ ~m_isViewWallet
          /\ last.op = "importViewSubWallet"

(***************************************************************************)
(* C26: every sub-wallet record created by a constructor, add_sub_wallet,  *)
(* import_sub_wallet or import_view_sub_wallet has at most one of          *)
(* sync_start_height and sync_start_timestamp nonzero, whatever the        *)
(* scan_height and new_wallet arguments are.                               *)
(***************************************************************************)
C26_OneSyncStartPerSubWallet ==
    \A k \in DOMAIN m_subWallets :
        \/ m_subWallets[k].syncStartHeight = 0
        \/ m_subWallets[k].syncStartTimestamp = 0

(***************************************************************************)
(* The life of a container of either kind: sub-wallets imported, outputs   *)
(* scanned, transactions sent and confirmed, inputs locked and spent,      *)
(* cancellations, forks and resets.                                        *)
(***************************************************************************)
ConfirmSentTransaction ==
    /\ Len(m_transactions) < MaxTxs
    /\ addTransaction([hash |-> 1, blockHeight |-> 0])

(* The caller names a key the container has no sub-wallet of. *)
SpendInputOfUnknownKey ==
    \E publicKey \in PublicKeys \ DOMAIN m_subWallets :
        markInputAsSpent(generate_key_image(<<1, 0>>, publicKey), publicKey, 1)

NextKeep ==
    \/ ImportSecondSubWallet
    \/ ImportSecondViewSubWallet
    \/ StorePrimaryInput
    \/ AddSentTransaction
    \/ ConfirmSentTransaction
    \/ LockStoredInput
    \/ SpendStoredInput
    \/ SpendInputOfUnknownKey
    \/ RemoveCancelledTransactions
    \/ RemoveForkedTransactions
    \/ Reset

SpecKeep == InitPlain /\ [][NextKeep]_vars

(* What identifies a sub-wallet: its keys, its address, whether it is the  *)
(* primary one.                                                            *)
Identity(subWallet) ==
    [publicSpendKey   |-> subWallet.publicSpendKey,
     privateSpendKey  |-> subWallet.privateSpendKey,
     address          |-> subWallet.address,
     isPrimaryAddress |-> subWallet.isPrimaryAddress]

(* The operations of the journal and of the ledgers. *)
JournalAndLedgerOperations ==
    {"removeForkedTransactions", "removeCancelledTransactions", "reset",
     "addTransaction", "addUnconfirmedTransaction", "markInputAsLocked",
     "markInputAsSpent"}

(***************************************************************************)
(* C27: sub-wallets are never removed.  No call removes a key from         *)
(* sub_wallets or changes a sub-wallet's keys, address or is_primary, or   *)
(* private_view_key or is_view_wallet, and public_spend_keys only grows by *)
(* appending; remove_forked_transactions, remove_cancelled_transactions,   *)
(* reset, add_confirmed, add_unconfirmed and the mark_input operations     *)
(* leave the key set of sub_wallets and public_spend_keys as they are.     *)
(***************************************************************************)
C27_SubWalletsNeverRemoved ==
    [][/\ DOMAIN m_subWallets \subseteq DOMAIN m_subWallets'
       /\ \A k \in DOMAIN m_subWallets :
             Identity(m_subWallets'[k]) = Identity(m_subWallets[k])
       /\ Len(m_publicSpendKeys) <= Len(m_publicSpendKeys')
       /\ SubSeq(m_publicSpendKeys', 1, Len(m_publicSpendKeys)) = m_publicSpendKeys
       /\ m_privateViewKey' = m_privateViewKey
       /\ m_isViewWallet' = m_isViewWallet
       /\ last'.op \in JournalAndLedgerOperations =>
             /\ DOMAIN m_subWallets' = DOMAIN m_subWallets
             /\ m_publicSpendKeys' = m_publicSpendKeys
      ]_vars

(* A reset that emptied the ledgers and the journal of a container of two  *)
(* sub-wallets.                                                            *)
C27_Witness ==
    /\ last.op = "reset"
    /\ Len(m_publicSpendKeys) >= 2
    /\ \E k \in DOMAIN pre.subWallets : pre.subWallets[k].inputs # {}
    /\ \A k \in DOMAIN m_subWallets : m_subWallets[k].inputs = {}
    /\ pre.transactions # <<>>

(* An input marked as spent for a key the container has no sub-wallet of.  *)
C27_WitnessUnknownKey ==
    /\ last.op = "markInputAsSpent"
    /\ last.result = "out_of_range"
    /\ last.publicKey \notin DOMAIN m_subWallets
    /\ \E k \in DOMAIN m_subWallets : m_subWallets[k].inputs # {}

====
